---- MODULE Spec2Model ----
(***************************************************************************)
(* State-machine model of cordova-lib's restore and removal flows:         *)
(*   src/src/cordova/restore-util.js   installPlatformsFromConfigXML,      *)
(*                                     installPluginsFromConfigXML         *)
(*   src/src/cordova/plugin/remove.js  plugin remove, validatePluginId     *)
(*   src/unnamed/part_000              platform remove                     *)
(*                                                                         *)
(* The project is two declarative stores (config.xml, read through         *)
(* ConfigParser, and package.json, read and written through                *)
(* @npmcli/package-json) plus the platforms/ and plugins/ directories.     *)
(* JavaScript values are modelled as follows: a string is a TLA+ string,   *)
(* an object used as a map is a function whose domain is its key set, an   *)
(* array is a sequence, and every falsy "no value" (undefined, a missing   *)
(* key, a missing attribute, the empty string) is the one value Undefined. *)
(***************************************************************************)
EXTENDS FiniteSets, Integers, Sequences, TLC

\* ------------------------------------------------------------------ bounds

\* Longest engine / plugin / platform list drawn for a project.
MaxDeclared == 2
\* Number of restores run one after the other on the same project.
MaxRuns == 2

\* ------------------------------------------------------- JavaScript values

Undefined == "<undefined>"

EmptyMap == [k \in {} |-> Undefined]

\* key in obj
In(k, obj) == k \in DOMAIN obj

\* obj[k], undefined for a missing key
Get(obj, k) == IF k \in DOMAIN obj THEN obj[k] ELSE Undefined

\* Whether a value of any kind is truthy; every falsy value is Undefined
Truthy(v) == ToString(v) # ToString(Undefined)

Or(a, b) == IF a # Undefined THEN a ELSE b

\* Object.assign({}, a, b) and { ...a, ...b }: b's keys win
Assign(a, b) == [k \in (DOMAIN a) \cup (DOMAIN b) |->
                    IF k \in DOMAIN b THEN b[k] ELSE a[k]]

\* array.includes(x)
Includes(arr, x) == \E i \in 1..Len(arr) : arr[i] = x

\* str.startsWith(prefix)
StartsWith(str, prefix) ==
    /\ Len(str) >= Len(prefix)
    /\ SubSeq(str, 1, Len(prefix)) = prefix

\* The letters toLowerCase changes
LowerCase ==
    [A |-> "a", B |-> "b", C |-> "c", D |-> "d", E |-> "e", F |-> "f",
     G |-> "g", H |-> "h", I |-> "i", J |-> "j", K |-> "k", L |-> "l",
     M |-> "m", N |-> "n", O |-> "o", P |-> "p", Q |-> "q", R |-> "r",
     S |-> "s", T |-> "t", U |-> "u", V |-> "v", W |-> "w", X |-> "x",
     Y |-> "y", Z |-> "z"]

LowerChar(c) == IF c \in DOMAIN LowerCase THEN LowerCase[c] ELSE c

\* str.toLowerCase()
RECURSIVE ToLowerCase(_)
ToLowerCase(str) ==
    IF Len(str) = 0 THEN ""
    ELSE LowerChar(SubSeq(str, 1, 1)) \o ToLowerCase(SubSeq(str, 2, Len(str)))

\* ------------------------------------------------- package.json (manifest)

\* The manifest document is a record
\*   [name, version, displayName, dependencies, devDependencies,
\*    cordova |-> [platforms, plugins]]
\* cordova.platforms is a sequence of platform names.  cordova.plugins is an
\* object whose key order (insertion order) decides the restore order, so it
\* is a sequence of entries [id, variables] with pairwise distinct ids.

\* pkgJson.update(partial): an overlay that is shallow per top-level key
PkgUpdate(content, partial) == Assign(content, partial)

\* Object.keys(plugins)
PluginKeys(plugins) == [i \in 1..Len(plugins) |-> plugins[i].id]

\* plugins[id]
PluginVars(plugins, id) ==
    IF \E i \in 1..Len(plugins) : plugins[i].id = id
    THEN plugins[CHOOSE i \in 1..Len(plugins) : plugins[i].id = id].variables
    ELSE Undefined

\* { ...plugins, [id]: variables }: an existing key keeps its place
PluginPut(plugins, id, variables) ==
    IF \E i \in 1..Len(plugins) : plugins[i].id = id
    THEN [i \in 1..Len(plugins) |->
            IF plugins[i].id = id THEN [id |-> id, variables |-> variables]
            ELSE plugins[i]]
    ELSE Append(plugins, [id |-> id, variables |-> variables])

\* ------------------------------------------- restore-util.js, platforms

\* configToPkgJson: the descriptor's front matter, each key only when the
\* descriptor has the value
ConfigToPkgJson(c) ==
    Assign(Assign(IF c.packageName # Undefined
                  THEN [name |-> ToLowerCase(c.packageName)] ELSE EmptyMap,
                  IF c.version # Undefined
                  THEN [version |-> c.version] ELSE EmptyMap),
           IF c.name # Undefined
           THEN [displayName |-> c.name] ELSE EmptyMap)

\* Object.assign({}, content.dependencies, content.devDependencies)
PkgSpecs(content) == Assign(content.dependencies, content.devDependencies)

PlatformModule(name) ==
    IF StartsWith(name, "cordova-") THEN name ELSE "cordova-" \o name

\* As MigrateEngine, but the descriptor's specifier is written even when the
\* manifest already has one for the module
MigrateEngineOverriding(content, engine, pkgPlatforms, pkgSpecs) ==
    LET platformModule == PlatformModule(engine.name)
        lacksName == ~Includes(pkgPlatforms, engine.name)
        withSpec ==
            IF engine.spec # Undefined
            THEN PkgUpdate(content,
                    [devDependencies |->
                        Assign(content.devDependencies,
                               (platformModule :> engine.spec))])
            ELSE content
    IN  IF lacksName
        THEN PkgUpdate(withSpec,
                [cordova |->
                    Assign(withSpec.cordova,
                           [platforms |->
                               Append(withSpec.cordova.platforms,
                                      engine.name)])])
        ELSE withSpec

\* The body of cfgPlatforms.forEach for one engine.  pkgPlatforms and
\* pkgSpecs are the copies taken before the loop.
MigrateEngine(content, engine, pkgPlatforms, pkgSpecs) ==
    LET platformModule == PlatformModule(engine.name)
        lacksSpec == engine.spec # Undefined /\ ~In(platformModule, pkgSpecs)
        lacksName == ~Includes(pkgPlatforms, engine.name)
        withSpec ==
            IF lacksSpec
            THEN PkgUpdate(content,
                    [devDependencies |->
                        Assign(content.devDependencies,
                               (platformModule :> engine.spec))])
            ELSE content
        withName ==
            IF lacksName
            THEN PkgUpdate(withSpec,
                    [cordova |->
                        Assign(withSpec.cordova,
                               [platforms |->
                                   Append(withSpec.cordova.platforms,
                                          engine.name)])])
            ELSE withSpec
    IN  IF lacksName \/ lacksSpec THEN withName ELSE content

\* cfgPlatforms.forEach(...), from engine i on
RECURSIVE MigrateEngines(_, _, _, _, _)
MigrateEngines(content, engines, i, pkgPlatforms, pkgSpecs) ==
    IF i > Len(engines) THEN content
    ELSE MigrateEngines(
            MigrateEngine(content, engines[i], pkgPlatforms, pkgSpecs),
            engines, i + 1, pkgPlatforms, pkgSpecs)

\* The working copy after the front matter update and the engine loop
ReconcilePlatforms(c, loaded) ==
    LET content == PkgUpdate(loaded, ConfigToPkgJson(c))
    IN  MigrateEngines(content, c.engines, 1,
                       content.cordova.platforms, PkgSpecs(content))

\* platformInfo: one item per platform of the (updated) manifest
PlatformInfo(content) ==
    LET specs == PkgSpecs(content)
        platformIDs == content.cordova.platforms
    IN  [i \in 1..Len(platformIDs) |->
            [name |-> platformIDs[i],
             spec |-> Or(Get(specs, "cordova-" \o platformIDs[i]),
                         Get(specs, platformIDs[i]))]]

\* As PlatformsNeedSave, with the comparison the wrong way round
PlatformsNeedSaveShrunk(platformIDs, pkgPlatforms) ==
    Len(platformIDs) < Len(pkgPlatforms)

\* platformIDs.length !== pkgPlatforms.length
PlatformsNeedSave(platformIDs, pkgPlatforms) ==
    Len(platformIDs) # Len(pkgPlatforms)

\* semver.validRange(spec, true), tabulated over the specifiers of the model
ValidRanges == {"^7.0.0", "^6.0.0", "1.2.3"}

ValidRange(spec) == spec \in ValidRanges

\* As PlatformInstallFrom, without the range test
PlatformInstallFromAnySpec(platformName, spec) ==
    IF spec # Undefined
    THEN platformName \o "@" \o spec
    ELSE platformName

\* installFrom of the platform restoreCallback
PlatformInstallFrom(platformName, spec) ==
    IF spec # Undefined /\ ValidRange(spec)
    THEN platformName \o "@" \o spec
    ELSE Or(spec, platformName)

\* As PlatformSkipped, but the target list is not consulted
PlatformSkippedOnDiskOnly(platformName, platformDirs, platforms) ==
    platformName \in platformDirs

\* The skip test of the platform restoreCallback
PlatformSkipped(platformName, platformDirs, platforms) ==
    LET installAllPlatforms == Len(platforms) = 0
    IN  \/ platformName \in platformDirs
        \/ (~installAllPlatforms /\ ~Includes(platforms, platformName))

\* What the platform errCallback returns: Promise.reject(error)
PlatformErrCallback == "rejected"

\* --------------------------------------------- restore-util.js, plugins

\* As MigratePlugin, but the plugin is entered without its variables
MigratePluginBare(content, cfgPlugin, pkgPluginIDs, pkgSpecs) ==
    IF Includes(pkgPluginIDs, cfgPlugin.id) THEN content
    ELSE PkgUpdate(content,
            [cordova |->
                Assign(content.cordova,
                       [plugins |->
                           PluginPut(content.cordova.plugins, cfgPlugin.id,
                                     EmptyMap)])])

\* The body of cfgPluginIDs.forEach for one plugin of the descriptor
MigratePlugin(content, cfgPlugin, pkgPluginIDs, pkgSpecs) ==
    LET plID == cfgPlugin.id
        withSpec ==
            IF cfgPlugin.spec # Undefined /\ ~In(plID, pkgSpecs)
            THEN PkgUpdate(content,
                    [devDependencies |->
                        Assign(content.devDependencies,
                               (plID :> cfgPlugin.spec))])
            ELSE content
        withPlugin ==
            PkgUpdate(withSpec,
                [cordova |->
                    Assign(withSpec.cordova,
                           [plugins |->
                               PluginPut(withSpec.cordova.plugins, plID,
                                         cfgPlugin.variables)])])
    IN  IF ~Includes(pkgPluginIDs, plID) THEN withPlugin ELSE content

RECURSIVE MigratePlugins(_, _, _, _, _)
MigratePlugins(content, cfgPlugins, i, pkgPluginIDs, pkgSpecs) ==
    IF i > Len(cfgPlugins) THEN content
    ELSE MigratePlugins(
            MigratePlugin(content, cfgPlugins[i], pkgPluginIDs, pkgSpecs),
            cfgPlugins, i + 1, pkgPluginIDs, pkgSpecs)

ReconcilePlugins(c, loaded) ==
    MigratePlugins(loaded, c.plugins, 1,
                   PluginKeys(loaded.cordova.plugins), PkgSpecs(loaded))

\* plugins: one item per plugin of the (updated) manifest
PluginItems(content) ==
    LET specs == PkgSpecs(content)
        entries == content.cordova.plugins
    IN  [i \in 1..Len(entries) |->
            [name |-> entries[i].id,
             spec |-> Get(specs, entries[i].id),
             variables |-> IF Truthy(entries[i].variables)
                           THEN entries[i].variables ELSE EmptyMap]]

\* As PluginsNeedSave, but saving whenever the descriptor declares a plugin
PluginsNeedSaveAny(pluginIDs, pkgPluginIDs) == Len(pluginIDs) # 0

\* pluginIDs.length !== pkgPluginIDs.length
PluginsNeedSave(pluginIDs, pkgPluginIDs) ==
    Len(pluginIDs) # Len(pkgPluginIDs)

\* installFrom of the plugin restoreCallback
PluginInstallFrom(pluginName, spec) ==
    IF spec # Undefined /\ ValidRange(spec)
    THEN pluginName \o "@" \o spec
    ELSE Or(spec, pluginName)

\* The skip test of the plugin restoreCallback
PluginSkipped(pluginName, pluginDirs) == pluginName \in pluginDirs

\* What the plugin errCallback returns: nothing, so the promise resolves
PluginErrCallback == "fulfilled"

\* What plugin('add', ...) leaves in plugins/ when it succeeds: the plugin
\* and the plugins it depends on ("wait for the plugin and its dependencies
\* to be installed"). dependencies maps a plugin id to the ids it names in
\* <dependency> tags.
PluginAddCreates(pluginName, dependencies) ==
    {pluginName} \cup (IF In(pluginName, dependencies)
                        THEN dependencies[pluginName] ELSE {})

\* ------------------------------------------------------------ the project

GitUrl == "https://example.com/pkg.git"

PlatformNames == {"android", "ios", "cordova-browser"}

PluginIds == {"cordova-plugin-camera", "cordova-plugin-file",
              "cordova-plugin-device"}

\* The <dependency> tags of the plugins: the camera plugin needs the file
\* plugin
PluginDependencies ==
    [id \in PluginIds |->
        IF id = "cordova-plugin-camera" THEN {"cordova-plugin-file"} ELSE {}]

\* Sequences of pairwise distinct elements of S, of length at most n
InjSeqs(S, n) ==
    UNION {{q \in [1..k -> S] : \A i, j \in 1..k : i # j => q[i] # q[j]} :
           k \in 0..n}

\* <engine name="..." spec="..."/> lists of the descriptor
EngineLists(n, specs) ==
    UNION {{[i \in 1..Len(q) |-> [name |-> q[i], spec |-> sp[i]]] :
            sp \in [1..Len(q) -> specs]} : q \in InjSeqs(PlatformNames, n)}

\* <plugin name="..." spec="..."><variable .../></plugin> lists
PluginLists(n, specVars) ==
    UNION {{[i \in 1..Len(q) |->
                [id |-> q[i], spec |-> sv[i][1], variables |-> sv[i][2]]] :
            sv \in [1..Len(q) -> specVars]} : q \in InjSeqs(PluginIds, n)}

\* cordova.plugins objects of the manifest
PluginEntries(n, vars) ==
    {[i \in 1..Len(q) |-> [id |-> q[i], variables |-> vars]] :
     q \in InjSeqs(PluginIds, n)}

Descriptor(packageName, version, name, engines, plugins) ==
    [packageName |-> packageName, version |-> version, name |-> name,
     engines |-> engines, plugins |-> plugins]

Manifest(name, version, displayName, deps, devDeps, platforms, plugins) ==
    [name |-> name, version |-> version, displayName |-> displayName,
     dependencies |-> deps, devDependencies |-> devDeps,
     cordova |-> [platforms |-> platforms, plugins |-> plugins]]

Project(command, c, pkg, platformDirs, pluginDirs, platforms) ==
    [command |-> command, cfg |-> c, pkg |-> pkg,
     dirs |-> [platforms |-> platformDirs, plugins |-> pluginDirs],
     targets |-> platforms]

\* Platform restores that differ in what the two stores declare; every
\* platform is on disk.
PlatformStoreProjects ==
    {Project("platforms",
             Descriptor("Io.App", "1.0.0", "App", engines, <<>>),
             Manifest("io.app", "1.0.0", "App", deps, devDeps,
                      platforms, <<>>),
             PlatformNames, {}, <<>>) :
        engines \in EngineLists(MaxDeclared, {Undefined, "^7.0.0"}),
        platforms \in InjSeqs(PlatformNames, MaxDeclared),
        deps \in {EmptyMap, ("cordova-ios" :> "^6.0.0")},
        devDeps \in {EmptyMap, ("cordova-ios" :> "1.2.3"),
                     ("cordova-browser" :> GitUrl)}}

\* Platform restores that differ in what is on disk, in the target list and
\* in the specifiers handed to the install primitive.
PlatformInstallProjects ==
    {Project("platforms",
             Descriptor("Io.App", "1.0.0", "App", engines, <<>>),
             Manifest("io.app", "1.0.0", "App", EmptyMap, devDeps,
                      platforms, <<>>),
             platformDirs, {}, targets) :
        engines \in {<<>>, <<[name |-> "cordova-browser", spec |-> GitUrl]>>},
        platforms \in InjSeqs(PlatformNames, MaxDeclared + 1),
        devDeps \in {EmptyMap,
                     ("cordova-ios" :> "^7.0.0") @@ ("android" :> GitUrl)},
        platformDirs \in {{}, {"ios"}},
        targets \in {<<>>, <<"ios", "android">>}}

\* Platform restores of a descriptor whose two engines have one module name,
\* cordova-browser; every platform is on disk.
PlatformSharedModuleProjects ==
    {Project("platforms",
             Descriptor("Io.App", "1.0.0", "App", engines, <<>>),
             Manifest("io.app", "1.0.0", "App", EmptyMap, devDeps,
                      platforms, <<>>),
             PlatformNames \cup {"browser"}, {}, <<>>) :
        engines \in
            UNION {{<<[name |-> "browser", spec |-> a],
                      [name |-> "cordova-browser", spec |-> b]>>,
                    <<[name |-> "cordova-browser", spec |-> b],
                      [name |-> "browser", spec |-> a]>>} :
                   a \in {Undefined, "^7.0.0"}, b \in {Undefined, "^6.0.0"}},
        platforms \in {<<>>, <<"browser">>, <<"android">>},
        devDeps \in {EmptyMap, ("cordova-browser" :> GitUrl)}}

\* Platform restores that differ in the front matter of the two stores.
FrontMatterProjects ==
    {Project("platforms",
             Descriptor(packageName, version, name, engines, <<>>),
             Manifest(pkgName, pkgVersion, pkgDisplayName, EmptyMap, EmptyMap,
                      <<"android">>, <<>>),
             PlatformNames, {}, <<>>) :
        packageName \in {Undefined, "Io.App"},
        version \in {Undefined, "2.0.0"},
        name \in {Undefined, "App"},
        pkgName \in {Undefined, "my-app"},
        pkgVersion \in {Undefined, "1.0.0"},
        pkgDisplayName \in {Undefined, "My App"},
        engines \in {<<>>, <<[name |-> "ios", spec |-> "^7.0.0"]>>}}

\* Plugin restores that differ in what the two stores declare; every plugin
\* is on disk.
PluginStoreProjects ==
    {Project("plugins",
             Descriptor("Io.App", "1.0.0", "App", <<>>, plugins),
             Manifest("io.app", "1.0.0", "App", buckets[1], buckets[2],
                      <<>>, entries),
             {}, PluginIds, <<>>) :
        plugins \in PluginLists(MaxDeclared,
                                {<<Undefined, EmptyMap>>,
                                 <<"^7.0.0", [API_KEY |-> "abc"]>>}),
        entries \in PluginEntries(MaxDeclared, [API_KEY |-> "mine"]),
        buckets \in {<<EmptyMap, EmptyMap>>,
                     <<("cordova-plugin-camera" :> "^6.0.0"), EmptyMap>>,
                     <<EmptyMap, ("cordova-plugin-camera" :> GitUrl)>>}}

\* Plugin restores that differ in what is on disk and in the specifiers
\* handed to the install primitive.
PluginInstallProjects ==
    {Project("plugins",
             Descriptor("Io.App", "1.0.0", "App", <<>>, plugins),
             Manifest("io.app", "1.0.0", "App", EmptyMap, devDeps,
                      <<>>, entries),
             {}, pluginDirs, <<>>) :
        plugins \in {<<>>, <<[id |-> "cordova-plugin-device", spec |-> GitUrl,
                              variables |-> [API_KEY |-> "abc"]]>>},
        entries \in PluginEntries(MaxDeclared + 1, EmptyMap),
        devDeps \in {EmptyMap,
                     ("cordova-plugin-camera" :> "^7.0.0")
                        @@ ("cordova-plugin-file" :> GitUrl)},
        pluginDirs \in {{}, {"cordova-plugin-file"}}}

\* Plugin restores of a manifest with a plugin entry that holds no variables
\* object (null)
PluginFalsyEntryProjects ==
    {Project("plugins",
             Descriptor("Io.App", "1.0.0", "App", <<>>, plugins),
             Manifest("io.app", "1.0.0", "App", EmptyMap, EmptyMap, <<>>,
                      <<[id |-> "cordova-plugin-device",
                         variables |-> Undefined]>>),
             {}, pluginDirs, <<>>) :
        plugins \in {<<>>, <<[id |-> "cordova-plugin-file", spec |-> Undefined,
                              variables |-> EmptyMap]>>},
        pluginDirs \in {{}, {"cordova-plugin-file"}}}

Projects ==
    PlatformStoreProjects \cup PlatformInstallProjects
        \cup PlatformSharedModuleProjects
        \cup FrontMatterProjects \cup PluginStoreProjects
        \cup PluginInstallProjects

\* ---------------------------------------------------------------- state

VARIABLES
    cfg,        \* config.xml as ConfigParser reads it
    pkgDisk,    \* package.json on disk
    dirs,       \* [platforms, plugins]: names with a directory on disk
    command,    \* the restore the caller runs: "platforms" or "plugins"
    targets,    \* the platforms argument of installPlatformsFromConfigXML
    run,        \* number of restores started so far
    pc,         \* "idle", "chain", "installing", "done"
    pkgJson,    \* the working copy held by the running restore
    items,      \* platformInfo / plugins: what the reduce folds over
    idx,        \* the item whose .then handlers run next
    soFar,      \* state of the promise the next handlers hang on
    itemName,   \* the closure variable platformName / pluginName
    inflight,   \* install primitives started and not yet settled
    calls,      \* the install primitive's invocations of this run, in order
    warns,      \* item names of the 'warn' events of this run, in order
    exitCode,   \* process.exitCode; 0 stands for "not set"
    result,     \* the returned promise: "pending", "resolved", "rejected"
    saves,      \* pkgJson.save() calls of this run
    saveError,  \* whether the save of this run threw
    loadError,  \* whether the load of package.json of this run rejected
    failed,     \* names of the items whose primitive rejected in this run
    atStart,    \* [cfg, pkg, dirs] as this run found them, and its number
    prev,       \* [ran, saves, saveError, loadError] of the restore before
                \* this one,
                \* the exitCode this one found and whether it found no
                \* restore under way
    probes,     \* the skip tests of this restore's restoreCallback, in order
    others,     \* the other restores that have started and not yet returned
    opts,       \* the opts argument of a remove command: [save]
    variant,    \* which of the two platform removes of part_000 runs
    plugins,    \* remove: cordova_util.findPlugins(pluginPath)
    platformList,       \* remove: cordova_util.listPlatforms(projectRoot)
    shouldRunPrepare,   \* remove: the flag of that name
    fetch,      \* plugin ids with an entry in plugins/fetch.json
    step,       \* the link of the removePlugin chain that runs next
    platform,   \* index in platformList of the platform handled next
    target,     \* the parameter of removePlugin, or of validatePluginId
    validatedPluginId,  \* what validatePluginId returned
    log         \* hooks, primitives and writes of a remove, in order

vars == <<cfg, pkgDisk, dirs, command, targets, run, pc, pkgJson, items, idx,
          soFar, itemName, inflight, calls, warns, exitCode, result, saves,
          saveError, loadError, failed, atStart, prev, probes, others, opts,
          variant,
          plugins,
          platformList, shouldRunPrepare, fetch, step, platform, target,
          validatedPluginId, log>>

\* What only a restore reads and writes
restoreOnly == <<run, pkgJson, items, soFar, itemName, inflight, calls, warns,
                 exitCode, saves, saveError, loadError, prev, probes,
                 others>>

\* What only a remove reads and writes
removeOnly == <<opts, variant, plugins, platformList, shouldRunPrepare, fetch,
                step, platform, target, validatedPluginId, log>>

\* The remove state of a project no remove has touched
NoRemove ==
    /\ opts = [save |-> FALSE, plugins |-> <<>>]
    /\ variant = 1
    /\ plugins = {}
    /\ platformList = <<>>
    /\ shouldRunPrepare = FALSE
    /\ fetch = {}
    /\ step = ""
    /\ platform = 1
    /\ target = ""
    /\ validatedPluginId = ""
    /\ log = <<>>

project == <<cfg, command, targets>>

\* The project p before any command has run
InitOf(p) ==
        /\ cfg = p.cfg
        /\ pkgDisk = p.pkg
        /\ dirs = p.dirs
        /\ command = p.command
        /\ targets = p.targets
        /\ run = 0
        /\ pc = "idle"
        /\ pkgJson = p.pkg
        /\ items = <<>>
        /\ idx = 1
        /\ soFar = "fulfilled"
        /\ itemName = ""
        /\ inflight = 0
        /\ calls = <<>>
        /\ warns = <<>>
        /\ exitCode = 0
        /\ result = "pending"
        /\ saves = 0
        /\ saveError = FALSE
        /\ loadError = FALSE
        /\ failed = {}
        /\ atStart = [cfg |-> p.cfg, pkg |-> p.pkg, dirs |-> p.dirs]
        /\ prev = [ran |-> FALSE, saves |-> 0, saveError |-> FALSE,
                   loadError |-> FALSE, exitCode |-> 0, alone |-> TRUE]
        /\ probes = <<>>
        /\ others = <<>>
        /\ NoRemove

Init ==
    \/ \E p \in Projects : InitOf(p)
    \/ \E p \in PluginFalsyEntryProjects : InitOf(p)

\* The state of one call of a restore: its position, its closure variables
\* and what it did so far
Frame ==
    [pc |-> pc, pkgJson |-> pkgJson, items |-> items, idx |-> idx,
     soFar |-> soFar, itemName |-> itemName, inflight |-> inflight,
     calls |-> calls, warns |-> warns, result |-> result, saves |-> saves,
     saveError |-> saveError, loadError |-> loadError, failed |-> failed,
     atStart |-> atStart,
     prev |-> prev, probes |-> probes]

\* The restore in view has been called and has not returned
Running == pc \notin {"idle", "done"}

\* A restore starts whenever it is called
CanStart == run < MaxRuns

\* installPlatformsFromConfigXML / installPluginsFromConfigXML up to
\* await loadPackageJson: the new call comes into view, a call still running
\* joins the others
EnterRestore ==
    /\ CanStart
    /\ run' = run + 1
    /\ others' = IF Running THEN Append(others, Frame) ELSE others
    /\ prev' = [ran |-> pc = "done", saves |-> saves,
                saveError |-> saveError, loadError |-> loadError,
                exitCode |-> exitCode,
                alone |-> ~Running /\ others = <<>>]
    /\ atStart' = [cfg |-> cfg, pkg |-> pkgDisk, dirs |-> dirs,
                   run |-> run + 1]
    /\ pc' = "loading"
    /\ pkgJson' = pkgDisk
    /\ items' = <<>>
    /\ saves' = 0
    /\ saveError' = FALSE
    /\ loadError' = FALSE
    /\ result' = "pending"
    /\ idx' = 1
    /\ soFar' = "fulfilled"
    /\ itemName' = ""
    /\ inflight' = 0
    /\ calls' = <<>>
    /\ warns' = <<>>
    /\ probes' = <<>>
    /\ failed' = {}
    /\ UNCHANGED removeOnly
    /\ UNCHANGED <<pkgDisk, dirs, project, exitCode>>

installPlatformsFromConfigXML ==
    /\ command = "platforms"
    /\ EnterRestore

installPluginsFromConfigXML ==
    /\ command = "plugins"
    /\ EnterRestore

\* From the settling of loadPackageJson to the save test: the manifest is
\* read, reconciled in the working copy, the items are taken from it, and
\* pkgJson.save() is called when the test says so; without a save the reduce
\* starts at once.
StartRestore(content, restoreItems, needSave) ==
    /\ pc = "loading"
    /\ atStart' = [atStart EXCEPT !.pkg = pkgDisk]
    /\ pkgJson' = content
    /\ items' = restoreItems
    /\ saves' = IF needSave THEN 1 ELSE 0
    /\ pc' = IF needSave THEN "saving" ELSE "chain"
    /\ UNCHANGED removeOnly
    /\ UNCHANGED <<pkgDisk, dirs, project, run, idx, soFar, itemName,
                   inflight, calls, warns, exitCode, result, saveError,
                   loadError, failed, prev, probes, others>>

\* await loadPackageJson rejects: the restore rejects where it stands, with
\* nothing reconciled, saved or installed
LoadRejected ==
    /\ pc = "loading"
    /\ loadError' = TRUE
    /\ pc' = "done"
    /\ result' = "rejected"
    /\ UNCHANGED removeOnly
    /\ UNCHANGED <<pkgDisk, dirs, project, run, pkgJson, items, idx, soFar,
                   itemName, inflight, calls, warns, exitCode, saves,
                   saveError, failed, atStart, prev, probes, others>>

PlatformsLoaded ==
    /\ command = "platforms"
    /\ \E loadOk \in BOOLEAN :
        IF ~loadOk THEN LoadRejected
        ELSE LET content == ReconcilePlatforms(cfg, pkgDisk)
             IN  StartRestore(content, PlatformInfo(content),
                              PlatformsNeedSave(content.cordova.platforms,
                                                pkgDisk.cordova.platforms))

PluginsLoaded ==
    /\ command = "plugins"
    /\ \E loadOk \in BOOLEAN :
        IF ~loadOk THEN LoadRejected
        ELSE LET content == ReconcilePlugins(cfg, pkgDisk)
             IN  StartRestore(content, PluginItems(content),
                              PluginsNeedSave(
                                  PluginKeys(content.cordova.plugins),
                                  PluginKeys(pkgDisk.cordova.plugins)))

\* As SaveSettled, but the reduce starts whether or not pkgJson.save() threw
SaveSettledDespiteError(saveOk) ==
    /\ saveError' = ~saveOk
    /\ pkgDisk' = IF saveOk THEN pkgJson ELSE pkgDisk
    /\ pc' = "chain"
    /\ UNCHANGED result

\* await pkgJson.save(): the working copy is on disk and the reduce starts,
\* or the save threw and the restore rejects
SaveSettled(saveOk) ==
    /\ saveError' = ~saveOk
    /\ pkgDisk' = IF saveOk THEN pkgJson ELSE pkgDisk
    /\ pc' = IF saveOk THEN "chain" ELSE "done"
    /\ result' = IF saveOk THEN "pending" ELSE "rejected"

SaveSettles ==
    /\ pc = "saving"
    /\ \E saveOk \in BOOLEAN : SaveSettled(saveOk)
    /\ UNCHANGED removeOnly
    /\ UNCHANGED <<dirs, project, run, pkgJson, items, idx, soFar, itemName,
                   inflight, calls, warns, exitCode, saves, loadError, failed,
                   atStart, prev, probes, others>>

\* As SoFarSettled, but the handlers do not wait for the primitive in flight
\* (the items mapped to promises all at once)
SoFarSettledOrPending == pc \in {"chain", "installing"}

\* soFar.then(onFulfilled, onRejected): the handlers of item idx run once the
\* promise before them has settled
SoFarSettled == pc = "chain"

\* As Skipped, but against the directories the restore found when it
\* started
SkippedAtStart(item) ==
    IF command = "platforms"
    THEN PlatformSkipped(item.name, atStart.dirs.platforms, targets)
    ELSE PluginSkipped(item.name, atStart.dirs.plugins)

\* fs.existsSync and the target test of restoreCallback, evaluated when the
\* callback runs
Skipped(item) ==
    IF command = "platforms"
    THEN PlatformSkipped(item.name, dirs.platforms, targets)
    ELSE PluginSkipped(item.name, dirs.plugins)

\* The invocation cordovaPlatform('add', installFrom, opts) or
\* plugin('add', installFrom, options)
Invocation(item) ==
    IF command = "platforms"
    THEN [name |-> item.name, spec |-> item.spec,
          installFrom |-> PlatformInstallFrom(item.name, item.spec)]
    ELSE [name |-> item.name, spec |-> item.spec,
          installFrom |-> PluginInstallFrom(item.name, item.spec),
          cli_variables |-> item.variables]

\* What fs.existsSync(platformPath / pluginPath) gives for the item now
ExistsSync(item) ==
    item.name \in (IF command = "platforms" THEN dirs.platforms
                   ELSE dirs.plugins)

\* onFulfilled: () => restoreCallback(item)
RestoreCallback ==
    /\ SoFarSettled
    /\ idx <= Len(items)
    /\ soFar = "fulfilled"
    /\ itemName' = items[idx].name
    /\ probes' = Append(probes, [name |-> items[idx].name,
                                 onDisk |-> ExistsSync(items[idx]),
                                 invoked |-> ~Skipped(items[idx])])
    /\ IF Skipped(items[idx])
       THEN /\ idx' = idx + 1
            /\ UNCHANGED <<pc, inflight, calls>>
       ELSE /\ calls' = Append(calls, Invocation(items[idx]))
            /\ inflight' = inflight + 1
            /\ pc' = "installing"
            /\ UNCHANGED idx
    /\ UNCHANGED removeOnly
    /\ UNCHANGED <<pkgDisk, dirs, project, run, pkgJson, items, soFar, warns,
                   exitCode, result, saves, saveError, loadError, failed,
                   atStart, prev, others>>

\* onRejected: errCallback
ErrCallback ==
    /\ SoFarSettled
    /\ idx <= Len(items)
    /\ soFar = "rejected"
    /\ exitCode' = 1
    /\ warns' = Append(warns, itemName)
    /\ soFar' = IF command = "platforms" THEN PlatformErrCallback
                ELSE PluginErrCallback
    /\ idx' = idx + 1
    /\ UNCHANGED removeOnly
    /\ UNCHANGED <<pkgDisk, dirs, project, run, pc, pkgJson, items, itemName,
                   inflight, calls, result, saves, saveError, loadError,
                   failed, atStart, prev, probes, others>>

\* The install primitive of item idx settles; a successful install leaves
\* the item's directory on disk, and those of a plugin's dependencies.
PrimitiveSettles ==
    /\ pc = "installing"
    /\ \E ok \in BOOLEAN :
        /\ soFar' = IF ok THEN "fulfilled" ELSE "rejected"
        /\ failed' = IF ok THEN failed ELSE failed \cup {items[idx].name}
        /\ dirs' = IF ~ok THEN dirs
                   ELSE IF command = "platforms"
                   THEN [dirs EXCEPT !.platforms = @ \cup {items[idx].name}]
                   ELSE [dirs EXCEPT !.plugins =
                            @ \cup PluginAddCreates(items[idx].name,
                                                    PluginDependencies)]
    /\ inflight' = inflight - 1
    /\ idx' = idx + 1
    /\ pc' = "chain"
    /\ UNCHANGED removeOnly
    /\ UNCHANGED <<pkgDisk, project, run, pkgJson, items, itemName, calls,
                   warns, exitCode, result, saves, saveError, loadError,
                   atStart, prev, probes, others>>

\* The promise the reduce returned settles as its last link did
RestoreSettles ==
    /\ SoFarSettled
    /\ idx > Len(items)
    /\ result' = IF soFar = "fulfilled" THEN "resolved" ELSE "rejected"
    /\ pc' = "done"
    /\ UNCHANGED removeOnly
    /\ UNCHANGED <<pkgDisk, dirs, project, run, pkgJson, items, idx, soFar,
                   itemName, inflight, calls, warns, exitCode, saves,
                   saveError, loadError, failed, atStart, prev, probes,
                   others>>

\* The event loop turns to another restore that is under way: that one comes
\* into view, the one in view joins the others unless it has returned
TurnTo(k) ==
    /\ pc' = others[k].pc
    /\ pkgJson' = others[k].pkgJson
    /\ items' = others[k].items
    /\ idx' = others[k].idx
    /\ soFar' = others[k].soFar
    /\ itemName' = others[k].itemName
    /\ inflight' = others[k].inflight
    /\ calls' = others[k].calls
    /\ warns' = others[k].warns
    /\ result' = others[k].result
    /\ saves' = others[k].saves
    /\ saveError' = others[k].saveError
    /\ loadError' = others[k].loadError
    /\ failed' = others[k].failed
    /\ atStart' = others[k].atStart
    /\ prev' = others[k].prev
    /\ probes' = others[k].probes
    /\ others' = IF Running THEN [others EXCEPT ![k] = Frame]
                 ELSE SubSeq(others, 1, k - 1)
                        \o SubSeq(others, k + 1, Len(others))
    /\ UNCHANGED removeOnly
    /\ UNCHANGED <<pkgDisk, dirs, project, run, exitCode>>

Interleave == \E k \in 1..Len(others) : TurnTo(k)

Next ==
    \/ installPlatformsFromConfigXML
    \/ installPluginsFromConfigXML
    \/ PlatformsLoaded
    \/ PluginsLoaded
    \/ SaveSettles
    \/ RestoreCallback
    \/ ErrCallback
    \/ PrimitiveSettles
    \/ RestoreSettles
    \/ Interleave

Spec == Init /\ [][Next]_vars

\* ----------------------------------------------------- serial orchestrator

ItemNames == [i \in 1..Len(items) |-> items[i].name]

CallNames == [i \in 1..Len(calls) |-> calls[i].name]

\* A restore has returned, its load fulfilled and its save, if any, did not
\* throw
Returned == pc = "done" /\ run > 0 /\ ~saveError /\ ~loadError

\* No other restore was under way at any time since this one was called
Alone == run > 0 /\ prev.alone /\ others = <<>> /\ atStart.run = run

\* Absent from disk when the restore started, and not excluded by the
\* target list
Pending(name) ==
    IF command = "platforms"
    THEN /\ name \notin atStart.dirs.platforms
         /\ (Len(targets) = 0 \/ Includes(targets, name))
    ELSE name \notin atStart.dirs.plugins

\* C1: when every declared item is absent from disk and not excluded, a
\* failing install of item k still leaves the install primitive invoked
\* exactly once for each of the N items, in declaration order.
C1_EveryItemInvokedDespiteFailure ==
    (/\ Returned
     /\ Alone
     /\ failed # {}
     /\ \A i \in 1..Len(items) : Pending(items[i].name))
        => CallNames = ItemNames

\* C2: a failing install is a warning naming the item plus exit code 1, never
\* a rejection of the restore; without a failure the restore resolves and the
\* exit code is not set.
C2_FailureWarnsAndResolves ==
    Returned =>
        /\ result = "resolved"
        /\ failed # {} => exitCode = 1
        /\ (failed = {} /\ Alone) => exitCode = prev.exitCode
        /\ \A name \in failed : Includes(warns, name)

\* C3: at most one install primitive is in flight: the next one begins only
\* after the one before it has settled.
C3_OneInstallAtATime ==
    /\ inflight <= 1
    /\ inflight = 1 <=> pc = "installing"

\* A second primitive is in flight, after the first one settled
C3_Witness == inflight = 1 /\ Len(calls) >= 2

\* C4: the install source is name@specifier for a valid range, the specifier
\* itself for any other specifier, and the item name without a specifier.
C4_InstallSource ==
    \A i \in 1..Len(calls) :
        calls[i].installFrom =
            CASE calls[i].spec = Undefined -> calls[i].name
              [] calls[i].spec \in ValidRanges ->
                    calls[i].name \o "@" \o calls[i].spec
              [] OTHER -> calls[i].spec

\* One run handed over an item of each kind
C4_Witness ==
    /\ \E i \in 1..Len(calls) : calls[i].installFrom = calls[i].name
    /\ \E i \in 1..Len(calls) : calls[i].installFrom = "ios@^7.0.0"
    /\ \E i \in 1..Len(calls) : calls[i].installFrom = GitUrl

\* ------------------------------------------------------------ reconciler

\* A restore has reconciled and its save, if any, did not throw
Reconciled ==
    /\ run > 0
    /\ pc \in {"chain", "installing", "done"}
    /\ ~saveError
    /\ ~loadError

Elements(q) == {q[i] : i \in 1..Len(q)}

EngineNames(c) == {c.engines[i].name : i \in 1..Len(c.engines)}

PluginIdsOf(c) == {c.plugins[i].id : i \in 1..Len(c.plugins)}

\* The descriptor's engines that the manifest's platform list lacked when
\* the restore started, in descriptor order
MissingEngines ==
    SelectSeq(cfg.engines,
              LAMBDA e : ~Includes(atStart.pkg.cordova.platforms, e.name))

\* The module is in neither dependency bucket of the manifest as it was
Unspecified(module) ==
    /\ module \notin DOMAIN atStart.pkg.dependencies
    /\ module \notin DOMAIN atStart.pkg.devDependencies

\* No two engines of the descriptor have the same module name
DistinctModules ==
    \A i, j \in 1..Len(cfg.engines) :
        i # j => PlatformModule(cfg.engines[i].name)
                    # PlatformModule(cfg.engines[j].name)

\* What C5 says of a reconciliation, the devDependencies key of an engine
\* being cordova-<name> (asStated) or the engine's module name
PlatformsMigrated(asStated) ==
    (/\ command = "platforms"
     /\ Reconciled
     /\ Len(MissingEngines) > 0
     /\ DistinctModules) =>
        /\ pkgDisk.cordova.platforms =
              atStart.pkg.cordova.platforms
                  \o [i \in 1..Len(MissingEngines) |-> MissingEngines[i].name]
        /\ \A i \in 1..Len(MissingEngines) :
              LET e == MissingEngines[i]
              IN  (e.spec # Undefined /\ Unspecified(PlatformModule(e.name)))
                     => Get(pkgDisk.devDependencies,
                            IF asStated THEN "cordova-" \o e.name
                            ELSE PlatformModule(e.name)) = e.spec
        /\ saves = 1

\* C5 as stated: with an engine missing from the manifest's platform list,
\* the list becomes the original list followed by the missing names in
\* descriptor order, devDependencies gain cordova-<name> with the specifier
\* of each such engine that has one and whose module is in neither bucket,
\* and the manifest is saved exactly once.
C5_MigrationAsStated == PlatformsMigrated(TRUE)

\* C5 as amended: the same, the devDependencies key being the engine's
\* module name: the name itself when it starts with cordova-, cordova-<name>
\* otherwise, for a descriptor whose engines have pairwise distinct module
\* names.
C5_Migration == PlatformsMigrated(FALSE)

\* The scenario of the claim, and an engine named cordova-...
C5_Witness ==
    /\ command = "platforms" /\ Reconciled
    /\ \E i \in 1..Len(MissingEngines) :
          /\ MissingEngines[i].spec # Undefined
          /\ Unspecified(PlatformModule(MissingEngines[i].name))
          /\ StartsWith(MissingEngines[i].name, "cordova-")
    /\ \E i \in 1..Len(MissingEngines) :
          /\ MissingEngines[i] = [name |-> "ios", spec |-> "^7.0.0"]
          /\ Unspecified("cordova-ios")

\* The specifier the manifest holds for a platform / a plugin
ManifestPlatformSpec(pkg, name) == Get(PkgSpecs(pkg), PlatformModule(name))

ManifestPluginSpec(pkg, id) == Get(PkgSpecs(pkg), id)

EngineOf(name) ==
    cfg.engines[CHOOSE i \in 1..Len(cfg.engines) : cfg.engines[i].name = name]

PluginOf(id) ==
    cfg.plugins[CHOOSE i \in 1..Len(cfg.plugins) : cfg.plugins[i].id = id]

\* C6 as stated: an item that exactly one store declared before the restore
\* is declared by both stores after its reconciliation, with the same
\* specifier and variables.
C6_BothStoresDeclareAsStated ==
    Reconciled =>
        /\ command = "platforms" =>
            \A name \in
                  (EngineNames(atStart.cfg)
                      \ Elements(atStart.pkg.cordova.platforms))
                  \cup (Elements(atStart.pkg.cordova.platforms)
                      \ EngineNames(atStart.cfg)) :
                /\ name \in EngineNames(cfg)
                /\ Includes(pkgDisk.cordova.platforms, name)
                /\ ManifestPlatformSpec(pkgDisk, name) = EngineOf(name).spec
        /\ command = "plugins" =>
            \A id \in
                  (PluginIdsOf(atStart.cfg)
                      \ Elements(PluginKeys(atStart.pkg.cordova.plugins)))
                  \cup (Elements(PluginKeys(atStart.pkg.cordova.plugins))
                      \ PluginIdsOf(atStart.cfg)) :
                /\ id \in PluginIdsOf(cfg)
                /\ Includes(PluginKeys(pkgDisk.cordova.plugins), id)
                /\ ManifestPluginSpec(pkgDisk, id) = PluginOf(id).spec
                /\ PluginVars(pkgDisk.cordova.plugins, id)
                      = PluginOf(id).variables

\* The specifier of the last engine of the descriptor that has this module
\* name and carries a specifier
LastSpecFor(module) ==
    LET hits == SelectSeq(cfg.engines,
                          LAMBDA e : /\ PlatformModule(e.name) = module
                                     /\ e.spec # Undefined)
    IN  IF Len(hits) = 0 THEN Undefined ELSE hits[Len(hits)].spec

\* C6 as amended: an item that only the descriptor declared is declared by
\* the saved manifest after the reconciliation, a plugin with the
\* descriptor's variables.  Its specifier in the manifest is the manifest's
\* own when a dependency bucket had one for its module; otherwise it is the
\* descriptor's: for a plugin the plugin's specifier, for a platform the
\* specifier of the last engine of the descriptor with its module name that
\* carries one, which is the engine's own unless another engine shares the
\* module name.  The descriptor is left as it was.
C6_DescriptorItemsMigrate ==
    Reconciled =>
        /\ cfg = atStart.cfg
        /\ command = "platforms" =>
            \A name \in EngineNames(atStart.cfg)
                            \ Elements(atStart.pkg.cordova.platforms) :
                /\ Includes(pkgDisk.cordova.platforms, name)
                /\ ManifestPlatformSpec(pkgDisk, name) =
                      IF Unspecified(PlatformModule(name))
                      THEN LastSpecFor(PlatformModule(name))
                      ELSE ManifestPlatformSpec(atStart.pkg, name)
                /\ (\A other \in EngineNames(cfg) \ {name} :
                        PlatformModule(other) # PlatformModule(name))
                    => LastSpecFor(PlatformModule(name)) = EngineOf(name).spec
        /\ command = "plugins" =>
            \A id \in PluginIdsOf(atStart.cfg)
                          \ Elements(PluginKeys(atStart.pkg.cordova.plugins)) :
                /\ Includes(PluginKeys(pkgDisk.cordova.plugins), id)
                /\ PluginVars(pkgDisk.cordova.plugins, id)
                      = PluginOf(id).variables
                /\ ManifestPluginSpec(pkgDisk, id) =
                      IF PluginOf(id).spec # Undefined /\ Unspecified(id)
                      THEN PluginOf(id).spec
                      ELSE ManifestPluginSpec(atStart.pkg, id)

\* Two engines that only the descriptor declared share a module name and
\* carry different specifiers: the manifest holds the later one for both
SharedModuleMigrated ==
    /\ command = "platforms" /\ Reconciled /\ pc = "done"
    /\ \E i, j \in 1..Len(cfg.engines) :
          /\ i < j
          /\ PlatformModule(cfg.engines[i].name)
                = PlatformModule(cfg.engines[j].name)
          /\ cfg.engines[i].spec # Undefined
          /\ cfg.engines[j].spec # Undefined
          /\ cfg.engines[i].spec # cfg.engines[j].spec
          /\ ~Includes(atStart.pkg.cordova.platforms, cfg.engines[i].name)
          /\ ~Includes(atStart.pkg.cordova.platforms, cfg.engines[j].name)
          /\ ManifestPlatformSpec(pkgDisk, cfg.engines[i].name)
                = cfg.engines[j].spec

\* A plugin with variables and a specifier was migrated while the manifest
\* declared a plugin the descriptor lacks
C6_Witness ==
    /\ command = "plugins" /\ Reconciled /\ pc = "done"
    /\ \E id \in PluginIdsOf(atStart.cfg)
                    \ Elements(PluginKeys(atStart.pkg.cordova.plugins)) :
          /\ PluginOf(id).variables = [API_KEY |-> "abc"]
          /\ ManifestPluginSpec(pkgDisk, id) = "^7.0.0"
    /\ Elements(PluginKeys(atStart.pkg.cordova.plugins))
          \ PluginIdsOf(atStart.cfg) # {}

\* C7: every update staged by the platform reconciliation is persisted: an
\* engine already in the platform list whose specifier the manifest lacks
\* has that specifier in the saved devDependencies, the manifest being saved
\* whenever the reconciliation changed it.
C7_StagedSpecifierSaved ==
    (command = "platforms" /\ Reconciled) =>
        /\ \A i \in 1..Len(cfg.engines) :
              LET e == cfg.engines[i]
              IN  (/\ Includes(atStart.pkg.cordova.platforms, e.name)
                   /\ e.spec # Undefined
                   /\ ~In(PlatformModule(e.name), PkgSpecs(atStart.pkg)))
                     => Get(pkgDisk.devDependencies, PlatformModule(e.name))
                            = e.spec
        /\ pkgJson # atStart.pkg => saves = 1

\* The descriptor's value for a front matter field of the manifest
FrontMatter(c) ==
    [name |-> c.packageName, version |-> c.version, displayName |-> c.name]

\* C8: name, version and displayName of the manifest change only when the
\* descriptor has the value and the manifest's field was absent or blank.
C8_FrontMatterKept ==
    (command = "platforms" /\ Reconciled) =>
        \A f \in {"name", "version", "displayName"} :
            pkgDisk[f] # atStart.pkg[f] =>
                /\ FrontMatter(cfg)[f] # Undefined
                /\ atStart.pkg[f] = Undefined

\* What C9 says of a manifest document
Kept(pkg) ==
    /\ \A i \in 1..Len(atStart.pkg.cordova.platforms) :
          Includes(pkg.cordova.platforms, atStart.pkg.cordova.platforms[i])
    /\ \A i \in 1..Len(atStart.pkg.cordova.plugins) :
          LET entry == atStart.pkg.cordova.plugins[i]
          IN  /\ Includes(PluginKeys(pkg.cordova.plugins), entry.id)
              /\ PluginVars(pkg.cordova.plugins, entry.id) = entry.variables
    /\ \A k \in DOMAIN atStart.pkg.dependencies :
          Get(pkg.dependencies, k) = atStart.pkg.dependencies[k]
    /\ \A k \in DOMAIN atStart.pkg.devDependencies :
          Get(pkg.devDependencies, k) = atStart.pkg.devDependencies[k]

\* C9: reconciliation only adds: every platform name, plugin with its
\* variables and dependency specifier of the manifest is still there with
\* the same value, in the working copy and on disk, and the descriptor is
\* not modified.
C9_OnlyAdds ==
    run > 0 => Kept(pkgJson) /\ Kept(pkgDisk) /\ cfg = atStart.cfg

\* The descriptor had a specifier for a module the manifest already had
\* one for, or a plugin the manifest already had, and the manifest changed
C9_Witness ==
    /\ Reconciled /\ pkgDisk # atStart.pkg
    /\ \/ \E i \in 1..Len(cfg.engines) :
             /\ cfg.engines[i].spec # Undefined
             /\ In(PlatformModule(cfg.engines[i].name), PkgSpecs(atStart.pkg))
       \/ \E i \in 1..Len(cfg.plugins) :
             /\ Includes(PluginKeys(atStart.pkg.cordova.plugins),
                         cfg.plugins[i].id)
             /\ cfg.plugins[i].spec # Undefined
             /\ In(cfg.plugins[i].id, PkgSpecs(atStart.pkg))

\* C10: a restore that follows a restore of the same project saves nothing
\* and leaves the manifest as the first one left it.
C10_SecondRunSavesNothing ==
    (prev.ran /\ ~prev.saveError /\ ~prev.loadError)
        => (saves = 0 /\ pkgDisk = atStart.pkg)

\* The second restore has returned, and the first one had saved
C10_Witness ==
    /\ prev.ran /\ prev.saves = 1 /\ ~prev.saveError
    /\ pc = "done" /\ ~loadError

\* ------------------------------------------------------------ skip policy

\* The restore was not asked to leave this item out: only the platform
\* restore has a target list, and an empty one leaves nothing out
Excluded(name) ==
    command = "platforms" /\ Len(targets) # 0 /\ ~Includes(targets, name)

OnDisk(name, d) ==
    IF command = "platforms" THEN name \in d.platforms ELSE name \in d.plugins

\* The items the restoreCallback has run for, and those it invoked the
\* install primitive for
Probed == [i \in 1..Len(probes) |-> probes[i].name]

Invoked == SelectSeq(probes, LAMBDA pr : pr.invoked)

\* C11: the install primitive is never invoked for an item whose directory
\* is on disk, nor for a platform that a non-empty target list does not
\* name, so a restore that finds every declared item on disk invokes it zero
\* times; and in a run without a failing primitive every declared item that
\* is absent from disk when its turn comes and is not excluded has the
\* primitive invoked for it.
C11_SkipPolicy ==
    /\ pc = "installing" =>
            /\ probes[Len(probes)].name = items[idx].name
            /\ ~probes[Len(probes)].onDisk
            /\ ~Excluded(items[idx].name)
    /\ \A i \in 1..Len(probes) :
            probes[i].invoked
                <=> (~probes[i].onDisk /\ ~Excluded(probes[i].name))
    /\ CallNames = [i \in 1..Len(Invoked) |-> Invoked[i].name]
    /\ (Reconciled /\ \A i \in 1..Len(items) : OnDisk(items[i].name, atStart.dirs))
            => Len(calls) = 0
    /\ (Returned /\ failed = {}) => Probed = ItemNames

\* A platform restore without a failure met an item on disk, an item the
\* target list leaves out and an item it had to install
C11_Witness ==
    /\ command = "platforms"
    /\ Returned
    /\ failed = {}
    /\ Len(calls) = 1
    /\ \E i \in 1..Len(items) : OnDisk(items[i].name, atStart.dirs)
    /\ \E i \in 1..Len(items) :
            ~OnDisk(items[i].name, atStart.dirs) /\ Excluded(items[i].name)

\* ===================================================== plugin/remove.js

PluginPrefix == "cordova-plugin-"

\* String.prototype.indexOf: where sub first starts in s, counted from 0, or
\* -1 when s does not contain it
IndexOf(s, sub) ==
    LET at == {i \in 0..(Len(s) - Len(sub)) :
                    SubSeq(s, i + 1, i + Len(sub)) = sub}
    IN  IF at = {} THEN -1
        ELSE CHOOSE i \in at : \A j \in at : i <= j

\* As validatePluginId, but the retry is left out only for an id that starts
\* with the prefix
RECURSIVE ValidatePluginIdPrefixTest(_, _)
ValidatePluginIdPrefixTest(pluginId, installedPlugins) ==
    IF pluginId \in installedPlugins THEN pluginId
    ELSE IF IndexOf(pluginId, PluginPrefix) # 0
         THEN ValidatePluginIdPrefixTest(PluginPrefix \o pluginId,
                                         installedPlugins)
         ELSE Undefined

\* validatePluginId(pluginId, installedPlugins); installedPlugins is the set
\* of the elements of the array
RECURSIVE ValidatePluginId(_, _)
ValidatePluginId(pluginId, installedPlugins) ==
    IF pluginId \in installedPlugins THEN pluginId
    ELSE IF IndexOf(pluginId, PluginPrefix) < 0
         THEN ValidatePluginId(PluginPrefix \o pluginId, installedPlugins)
         ELSE Undefined

\* ------------------------------------------- validatePluginId on its own

\* Ids handed to validatePluginId, and ids of installed plugins
ValidateIds ==
    {"camera", "cordova-plugin-camera",
     "cordova-plugin-cordova-plugin-camera", "my-cordova-plugin-camera",
     "cordova-plugin-my-cordova-plugin-camera", "file", "cordova-plugin-"}

\* A project left alone while a function of the module is applied
Untouched ==
    /\ cfg = Descriptor("Io.App", "1.0.0", "App", <<>>, <<>>)
    /\ pkgDisk = Manifest("io.app", "1.0.0", "App", EmptyMap, EmptyMap,
                          <<>>, <<>>)
    /\ dirs = [platforms |-> {}, plugins |-> {}]
    /\ targets = <<>>
    /\ run = 0
    /\ pkgJson = pkgDisk
    /\ items = <<>>
    /\ idx = 1
    /\ soFar = "fulfilled"
    /\ itemName = ""
    /\ inflight = 0
    /\ calls = <<>>
    /\ warns = <<>>
    /\ exitCode = 0
    /\ result = "pending"
    /\ saves = 0
    /\ saveError = FALSE
    /\ loadError = FALSE
    /\ failed = {}
    /\ atStart = [cfg |-> cfg, pkg |-> pkgDisk, dirs |-> dirs]
    /\ prev = [ran |-> FALSE, saves |-> 0, saveError |-> FALSE,
               loadError |-> FALSE, exitCode |-> 0, alone |-> TRUE]
    /\ probes = <<>>
    /\ others = <<>>
    /\ opts = [save |-> FALSE, plugins |-> <<>>]
    /\ variant = 1
    /\ platformList = <<>>
    /\ shouldRunPrepare = FALSE
    /\ fetch = {}
    /\ step = ""
    /\ platform = 1
    /\ log = <<>>

ValidateInit ==
    /\ Untouched
    /\ command = "validatePluginId"
    /\ pc = "call"
    /\ target \in ValidateIds
    /\ plugins \in SUBSET ValidateIds
    /\ validatedPluginId = ""

\* validatePluginId(target, plugins) is called and returns
CallValidatePluginId ==
    /\ command = "validatePluginId"
    /\ pc = "call"
    /\ validatedPluginId' = ValidatePluginId(target, plugins)
    /\ pc' = "returned"
    /\ UNCHANGED <<cfg, pkgDisk, dirs, command, targets, result, idx, failed,
                   atStart, restoreOnly, opts, variant, plugins, platformList,
                   shouldRunPrepare, fetch, step, platform, target, log>>

ValidateNext == CallValidatePluginId

ValidateSpec == ValidateInit /\ [][ValidateNext]_vars

\* C12 as stated: validatePluginId returns the id when it is installed,
\* otherwise the prefixed id when that one is installed, otherwise nothing.
C12_ValidateAsStated ==
    (command = "validatePluginId" /\ pc = "returned") =>
        validatedPluginId =
            IF target \in plugins THEN target
            ELSE IF (PluginPrefix \o target) \in plugins
                 THEN PluginPrefix \o target
                 ELSE Undefined

\* C12: validatePluginId returns the id when it is installed; otherwise, for
\* an id that does not contain 'cordova-plugin-', the prefixed id when that
\* one is installed; otherwise nothing. The prefix is prepended at most once.
C12_Validate ==
    (command = "validatePluginId" /\ pc = "returned") =>
        /\ validatedPluginId =
            IF target \in plugins THEN target
            ELSE IF IndexOf(target, PluginPrefix) < 0
                    /\ (PluginPrefix \o target) \in plugins
                 THEN PluginPrefix \o target
                 ELSE Undefined
        /\ validatedPluginId \in {target, PluginPrefix \o target, Undefined}

\* The bare id was not installed and the prefixed one was returned
C12_Witness ==
    /\ command = "validatePluginId"
    /\ pc = "returned"
    /\ target = "camera"
    /\ validatedPluginId = "cordova-plugin-camera"

\* ------------------------------------------------------ remove(...), state

\* Longest target list handed to a remove command
MaxTargets == 2

\* cordova_util.listPlatforms: the platforms with a directory, as the
\* directory listing orders them
ListPlatforms(platformDirs) ==
    SelectSeq(<<"android", "browser", "ios">>, LAMBDA p : p \in platformDirs)

\* One line of the log: a hook, a primitive or a write, the index of the
\* target it was made for (0: for the command), and how it ended
Entry(op, t, id, plat, outcome) ==
    [op |-> op, target |-> t, id |-> id, platform |-> plat,
     outcome |-> outcome]

\* The promise of the last line of the log settles
Settled(outcome) == [log EXCEPT ![Len(log)].outcome = outcome]

InFlight == Len(log) > 0 /\ log[Len(log)].outcome = "pending"

\* As NoTargets, but no target list is turned down
NoTargetsNever(list) == FALSE

\* !targets || !targets.length; an absent list is the empty one here
NoTargets(list) == Len(list) = 0

\* promise-util Q_chainmap(args, func): func is applied to one element after
\* the other, each after the promise of the one before has settled. A
\* rejection is kept to its element: the fold goes on with the next one.
Q_chainmapIsolates == TRUE

\* As RemovePluginThen, but the stores are updated before the plugin is
\* uninstalled
RemovePluginThenPersistFirst(link, fulfilled) ==
    IF ~fulfilled THEN "rejected"
    ELSE CASE link = "validate" -> "platforms"
           [] link = "platforms" -> "persist"
           [] link = "persist" -> "uninstallPlugin"
           [] link = "uninstallPlugin" -> "remove_fetch_metadata"
           [] link = "remove_fetch_metadata" -> "fulfilled"

\* As RemovePluginThen, but a link runs whether or not the one before it
\* threw or rejected
RemovePluginThenAlways(link, fulfilled) ==
    CASE link = "validate" -> "platforms"
      [] link = "platforms" -> "uninstallPlugin"
      [] link = "uninstallPlugin" -> "persist"
      [] link = "persist" -> "remove_fetch_metadata"
      [] link = "remove_fetch_metadata" -> "fulfilled"

\* The .then chain of removePlugin: the link that runs after this one
\* settled, or how the promise of removePlugin settles
RemovePluginThen(link, fulfilled) ==
    IF ~fulfilled THEN "rejected"
    ELSE CASE link = "validate" -> "platforms"
           [] link = "platforms" -> "uninstallPlugin"
           [] link = "uninstallPlugin" -> "persist"
           [] link = "persist" -> "remove_fetch_metadata"
           [] link = "remove_fetch_metadata" -> "fulfilled"

\* As FireThen, but the callbacks run after a rejected hook too
FireThenAnyway(fulfilled) == "fulfilled"

\* hooksRunner.fire(...).then(callback): whether the callbacks hanging on the
\* hook's promise run, or the promise of the command rejects
FireThen(fulfilled) == IF fulfilled THEN "fulfilled" ELSE "rejected"

\* As DidPrepareThen, but the flag is set when the platform did prepare
DidPrepareThenInverted(flag, didPrepare) == IF didPrepare THEN TRUE ELSE flag

\* .then(function (didPrepare) { if (!didPrepare) shouldRunPrepare = true; })
DidPrepareThen(flag, didPrepare) == IF ~didPrepare THEN TRUE ELSE flag

\* configXml.getPlugin(target), configXml.removePlugin(target)
CfgHasPlugin(c, id) == \E i \in 1..Len(c.plugins) : c.plugins[i].id = id

CfgRemovePlugin(c, id) ==
    [c EXCEPT !.plugins = SelectSeq(@, LAMBDA pl : pl.id # id)]

\* As PkgRemovePlugin, but cordova.plugins is left with no entry at all
PkgRemovePluginAll(pkg, id) == [pkg EXCEPT !.cordova.plugins = <<>>]

\* plugins[target], and the manifest with { [target]: _, ...updatedPlugins }
\* as its cordova.plugins
PkgHasPlugin(pkg, id) ==
    \E i \in 1..Len(pkg.cordova.plugins) :
        /\ pkg.cordova.plugins[i].id = id
        /\ Truthy(pkg.cordova.plugins[i].variables)

PkgRemovePlugin(pkg, id) ==
    [pkg EXCEPT !.cordova.plugins = SelectSeq(@, LAMBDA pl : pl.id # id)]

\* --------------------------------------------------- remove(...), projects

\* What the user may name as a plugin to remove: a bare id, a full id, and
\* an id of no installed plugin
PluginTargets == {"camera", "cordova-plugin-file", "ghost"}

RemoveProject(cmd, c, pkg, platformDirs, pluginDirs, ids, list, save, v) ==
    [command |-> cmd, cfg |-> c, pkg |-> pkg,
     dirs |-> [platforms |-> platformDirs, plugins |-> pluginDirs,
               json |-> platformDirs],
     targets |-> list, save |-> save, variant |-> v, fetch |-> ids]

\* Plugin removes that differ in the targets, in the save option and in the
\* installed platforms. The camera plugin is declared in both stores, the
\* file plugin in the descriptor only, the device plugin in the manifest
\* only; "ghost" is declared and has fetch metadata, but is not installed.
PluginRemoveProjects ==
    {RemoveProject("plugin rm",
        Descriptor("Io.App", "1.0.0", "App",
                   <<[name |-> "android", spec |-> "^7.0.0"]>>,
                   <<[id |-> "cordova-plugin-camera", spec |-> "^7.0.0",
                      variables |-> [API_KEY |-> "abc"]],
                     [id |-> "cordova-plugin-file", spec |-> Undefined,
                      variables |-> EmptyMap],
                     [id |-> "ghost", spec |-> Undefined,
                      variables |-> EmptyMap]>>),
        Manifest("io.app", "1.0.0", "App", EmptyMap, EmptyMap,
                 <<"android", "ios">>,
                 <<[id |-> "cordova-plugin-camera",
                    variables |-> [API_KEY |-> "abc"]],
                   [id |-> "cordova-plugin-device",
                    variables |-> EmptyMap],
                   [id |-> "ghost", variables |-> EmptyMap]>>),
        platformDirs, PluginIds, PluginIds \cup {"ghost"}, list, save, 1) :
        list \in InjSeqs(PluginTargets, MaxTargets),
        save \in BOOLEAN,
        platformDirs \in {{}, {"android"}, {"android", "ios"}}}

\* What the user may name as a platform to remove: a platform the manifest
\* alone declares, a platform with a version, a platform both stores declare
PlatformTargets == {"browser", "ios@7.0.0", "android"}

\* Platform removes that differ in the targets, in the save option and in
\* which of the two removes of part_000 runs.
PlatformRemoveProjects ==
    {RemoveProject("platform rm",
        Descriptor("Io.App", "1.0.0", "App",
                   <<[name |-> "android", spec |-> "^7.0.0"],
                     [name |-> "ios", spec |-> "^7.0.0"]>>,
                   <<[id |-> "cordova-plugin-camera", spec |-> "^7.0.0",
                      variables |-> EmptyMap]>>),
        Manifest("io.app", "1.0.0", "App", EmptyMap,
                 ("cordova-android" :> "^7.0.0") @@ ("cordova-ios" :> "^7.0.0"),
                 <<"android", "browser", "ios">>,
                 <<[id |-> "cordova-plugin-camera", variables |-> EmptyMap]>>),
        {"android", "browser", "ios"}, {"cordova-plugin-camera"},
        {"cordova-plugin-camera"}, list, save, v) :
        list \in InjSeqs(PlatformTargets, MaxTargets),
        save \in BOOLEAN,
        v \in {1, 2}}

RemoveProjects == PluginRemoveProjects \cup PlatformRemoveProjects

RemoveInit ==
    \E p \in RemoveProjects :
        /\ cfg = p.cfg
        /\ pkgDisk = p.pkg
        /\ dirs = p.dirs
        /\ command = p.command
        /\ targets = p.targets
        /\ opts = [save |-> p.save, plugins |-> p.targets]
        /\ variant = p.variant
        /\ fetch = p.fetch
        /\ atStart = [cfg |-> p.cfg, pkg |-> p.pkg, dirs |-> p.dirs,
                      fetch |-> p.fetch]
        /\ pc = "idle"
        /\ result = "pending"
        /\ idx = 1
        /\ failed = {}
        /\ plugins = {}
        /\ platformList = <<>>
        /\ shouldRunPrepare = FALSE
        /\ step = ""
        /\ platform = 1
        /\ target = ""
        /\ validatedPluginId = ""
        /\ log = <<>>
        /\ run = 0
        /\ pkgJson = p.pkg
        /\ items = <<>>
        /\ soFar = "fulfilled"
        /\ itemName = ""
        /\ inflight = 0
        /\ calls = <<>>
        /\ warns = <<>>
        /\ exitCode = 0
        /\ saves = 0
        /\ saveError = FALSE
        /\ loadError = FALSE
        /\ prev = [ran |-> FALSE, saves |-> 0, saveError |-> FALSE,
                   loadError |-> FALSE, exitCode |-> 0, alone |-> TRUE]
        /\ probes = <<>>
        /\ others = <<>>

\* ---------------------------------------------------- remove(...), plugins

\* What no step of a remove command changes
removeFixed == <<command, targets, opts, variant, atStart, restoreOnly>>

\* remove(projectRoot, targets, hooksRunner, opts) up to the firing of the
\* before_plugin_rm hook
PluginRemove ==
    /\ command = "plugin rm"
    /\ pc = "idle"
    /\ IF NoTargets(targets)
       THEN /\ result' = "rejected"
            /\ pc' = "done"
            /\ UNCHANGED <<plugins, platformList, shouldRunPrepare, log>>
       ELSE /\ plugins' = dirs.plugins
            /\ platformList' = ListPlatforms(dirs.platforms)
            /\ shouldRunPrepare' = FALSE
            /\ log' = Append(log, Entry("fire", 0, "before_plugin_rm", "",
                                        "pending"))
            /\ pc' = "before"
            /\ UNCHANGED result
    /\ UNCHANGED <<cfg, pkgDisk, dirs, fetch, idx, failed, step, platform,
                   target, validatedPluginId, removeFixed>>

\* The promise of the before_ hook settles: the next .then callback runs
\* (the fold over opts.plugins, or the deletion of the platform
\* directories), or the command rejects
BeforeHookSettles ==
    /\ pc = "before"
    /\ \E ok \in BOOLEAN :
        /\ log' = Settled(IF ok THEN "fulfilled" ELSE "rejected")
        /\ pc' = IF FireThen(ok) = "rejected" THEN "done"
                 ELSE IF command = "plugin rm" THEN "targets" ELSE "rmSync"
        /\ result' = IF FireThen(ok) = "rejected" THEN "rejected" ELSE result
    /\ idx' = 1
    /\ step' = "validate"
    /\ UNCHANGED <<cfg, pkgDisk, dirs, fetch, failed, plugins, platformList,
                   shouldRunPrepare, platform, target, validatedPluginId,
                   removeFixed>>

\* removePlugin runs for opts.plugins[idx]
InRemovePlugin(link) ==
    /\ command = "plugin rm"
    /\ pc = "targets"
    /\ idx <= Len(opts.plugins)
    /\ step = link

\* A link of removePlugin has settled: the next link is up, or removePlugin
\* has settled and Q_chainmap goes on
LinkSettles(link, fulfilled) ==
    LET then == RemovePluginThen(link, fulfilled)
    IN  IF then \notin {"fulfilled", "rejected"}
        THEN /\ step' = then
             /\ UNCHANGED <<idx, failed, pc, result>>
        ELSE /\ step' = "validate"
             /\ failed' = IF then = "rejected"
                          THEN failed \cup {[target |-> idx, platform |-> ""]}
                          ELSE failed
             /\ IF then = "rejected" /\ ~Q_chainmapIsolates
                THEN pc' = "done" /\ result' = "rejected" /\ UNCHANGED idx
                ELSE idx' = idx + 1 /\ UNCHANGED <<pc, result>>

\* First link: validatePluginId, or the throw
ValidateTarget ==
    /\ InRemovePlugin("validate")
    /\ LET id == ValidatePluginId(opts.plugins[idx], plugins)
       IN  /\ validatedPluginId' = id
           /\ target' = IF id # Undefined THEN id ELSE opts.plugins[idx]
           /\ LinkSettles("validate", id # Undefined)
    /\ platform' = 1
    /\ UNCHANGED <<cfg, pkgDisk, dirs, fetch, plugins, platformList,
                   shouldRunPrepare, log, removeFixed>>

\* Second link: Q_chainmap(platformList, ...) reaches the next platform and
\* removePluginFromPlatform calls plugman.uninstall.uninstallPlatform
UninstallPlatform ==
    /\ InRemovePlugin("platforms")
    /\ ~InFlight
    /\ platform <= Len(platformList)
    /\ log' = Append(log, Entry("uninstallPlatform", idx, target,
                                platformList[platform], "pending"))
    /\ UNCHANGED <<cfg, pkgDisk, dirs, fetch, idx, failed, pc, result, step,
                   plugins, platformList, shouldRunPrepare, platform, target,
                   validatedPluginId, removeFixed>>

\* uninstallPlatform settles; a falsy didPrepare sets shouldRunPrepare
UninstallPlatformSettles ==
    /\ InRemovePlugin("platforms")
    /\ InFlight
    /\ \E outcome \in {"prepared", "not prepared", "rejected"} :
        /\ log' = Settled(outcome)
        /\ shouldRunPrepare' = IF outcome = "rejected" THEN shouldRunPrepare
                               ELSE DidPrepareThen(shouldRunPrepare,
                                                   outcome = "prepared")
        /\ IF outcome = "rejected" /\ ~Q_chainmapIsolates
           THEN LinkSettles("platforms", FALSE) /\ UNCHANGED platform
           ELSE /\ platform' = platform + 1
                /\ failed' = IF outcome = "rejected"
                             THEN failed \cup
                                    {[target |-> idx,
                                      platform |-> platformList[platform]]}
                             ELSE failed
                /\ UNCHANGED <<idx, pc, result, step>>
    /\ UNCHANGED <<cfg, pkgDisk, dirs, fetch, plugins, platformList, target,
                   validatedPluginId, removeFixed>>

\* The fold over platformList has settled, and the second link with it
PlatformsSettle ==
    /\ InRemovePlugin("platforms")
    /\ ~InFlight
    /\ platform > Len(platformList)
    /\ LinkSettles("platforms", TRUE)
    /\ UNCHANGED <<cfg, pkgDisk, dirs, fetch, plugins, platformList,
                   shouldRunPrepare, platform, target, validatedPluginId,
                   log, removeFixed>>

\* Third link: plugman.uninstall.uninstallPlugin is called
UninstallPlugin ==
    /\ InRemovePlugin("uninstallPlugin")
    /\ ~InFlight
    /\ log' = Append(log, Entry("uninstallPlugin", idx, target, "",
                                "pending"))
    /\ UNCHANGED <<cfg, pkgDisk, dirs, fetch, idx, failed, pc, result, step,
                   plugins, platformList, shouldRunPrepare, platform, target,
                   validatedPluginId, removeFixed>>

\* uninstallPlugin settles; done, it has deleted plugins/<target>
UninstallPluginSettles ==
    /\ InRemovePlugin("uninstallPlugin")
    /\ InFlight
    /\ \E ok \in BOOLEAN :
        /\ log' = Settled(IF ok THEN "fulfilled" ELSE "rejected")
        /\ dirs' = IF ok THEN [dirs EXCEPT !.plugins = @ \ {target}]
                   ELSE dirs
        /\ LinkSettles("uninstallPlugin", ok)
    /\ UNCHANGED <<cfg, pkgDisk, fetch, plugins, platformList,
                   shouldRunPrepare, platform, target, validatedPluginId,
                   removeFixed>>

\* Fourth link: with opts.save, persistRemovalToCfg, then persistRemovalToPkg
\* up to await loadPackageJson
PersistRemoval ==
    /\ InRemovePlugin("persist")
    /\ IF ~opts.save
       THEN /\ LinkSettles("persist", TRUE)
            /\ UNCHANGED <<cfg, log>>
       ELSE LET inCfg == CfgHasPlugin(cfg, target)
            IN  /\ cfg' = IF inCfg THEN CfgRemovePlugin(cfg, target) ELSE cfg
                /\ log' = IF inCfg
                          THEN Append(log, Entry("cfg.write", idx, target,
                                                 "", "fulfilled"))
                          ELSE log
                /\ step' = "persistLoad"
                /\ UNCHANGED <<idx, failed, pc, result>>
    /\ UNCHANGED <<pkgDisk, dirs, fetch, plugins, platformList,
                   shouldRunPrepare, platform, target, validatedPluginId,
                   removeFixed>>

\* await loadPackageJson settles. A load that rejects rejects the link;
\* after a load that fulfils, a plugin the manifest holds leaves the working
\* copy and pkgJson.save() is called, and without it the link settles
PersistLoaded ==
    /\ InRemovePlugin("persistLoad")
    /\ \E loadOk \in BOOLEAN :
        IF ~loadOk
        THEN /\ LinkSettles("persist", FALSE)
             /\ UNCHANGED log
        ELSE IF PkgHasPlugin(pkgDisk, target)
        THEN /\ log' = Append(log, Entry("pkgJson.save", idx, target, "",
                                         "pending"))
             /\ step' = "persistSave"
             /\ UNCHANGED <<idx, failed, pc, result>>
        ELSE /\ LinkSettles("persist", TRUE)
             /\ UNCHANGED log
    /\ UNCHANGED <<cfg, pkgDisk, dirs, fetch, plugins, platformList,
                   shouldRunPrepare, platform, target, validatedPluginId,
                   removeFixed>>

\* pkgJson.save() settles; it may throw. Nothing else writes package.json
\* between the load and the save of a remove.
PersistSaveSettles ==
    /\ InRemovePlugin("persistSave")
    /\ InFlight
    /\ \E ok \in BOOLEAN :
        /\ pkgDisk' = IF ok THEN PkgRemovePlugin(pkgDisk, target) ELSE pkgDisk
        /\ log' = Settled(IF ok THEN "fulfilled" ELSE "rejected")
        /\ LinkSettles("persist", ok)
    /\ UNCHANGED <<cfg, dirs, fetch, plugins, platformList, shouldRunPrepare,
                   platform, target, validatedPluginId, removeFixed>>

\* Last link: metadata.remove_fetch_metadata(pluginPath, target)
RemoveFetchMetadata ==
    /\ InRemovePlugin("remove_fetch_metadata")
    /\ fetch' = fetch \ {target}
    /\ log' = Append(log, Entry("remove_fetch_metadata", idx, target, "",
                                "fulfilled"))
    /\ LinkSettles("remove_fetch_metadata", TRUE)
    /\ UNCHANGED <<cfg, pkgDisk, dirs, plugins, platformList,
                   shouldRunPrepare, platform, target, validatedPluginId,
                   removeFixed>>

\* The fold over opts.plugins has settled: preparePlatforms is called if
\* shouldRunPrepare is set, else after_plugin_rm is fired
AfterRemovePlugins ==
    /\ command = "plugin rm"
    /\ pc = "targets"
    /\ idx > Len(opts.plugins)
    /\ IF shouldRunPrepare
       THEN /\ log' = Append(log, Entry("preparePlatforms", 0, "", "",
                                        "pending"))
            /\ pc' = "prepare"
       ELSE /\ log' = Append(log, Entry("fire", 0, "after_plugin_rm", "",
                                        "pending"))
            /\ pc' = "after"
    /\ UNCHANGED <<cfg, pkgDisk, dirs, fetch, idx, failed, result, step,
                   plugins, platformList, shouldRunPrepare, platform, target,
                   validatedPluginId, removeFixed>>

\* preparePlatforms settles: after_plugin_rm is fired, or the command rejects
PreparePlatformsSettles ==
    /\ command = "plugin rm"
    /\ pc = "prepare"
    /\ \E ok \in BOOLEAN :
        IF ok
        THEN /\ log' = Append(Settled("fulfilled"),
                              Entry("fire", 0, "after_plugin_rm", "",
                                    "pending"))
             /\ pc' = "after"
             /\ UNCHANGED result
        ELSE /\ log' = Settled("rejected")
             /\ pc' = "done"
             /\ result' = "rejected"
    /\ UNCHANGED <<cfg, pkgDisk, dirs, fetch, idx, failed, step, plugins,
                   platformList, shouldRunPrepare, platform, target,
                   validatedPluginId, removeFixed>>

\* The promise of the after_ hook settles, and the command with it
AfterHookSettles ==
    /\ pc = "after"
    /\ \E ok \in BOOLEAN :
        /\ log' = Settled(IF ok THEN "fulfilled" ELSE "rejected")
        /\ result' = IF ok THEN "resolved" ELSE "rejected"
    /\ pc' = "done"
    /\ UNCHANGED <<cfg, pkgDisk, dirs, fetch, idx, failed, step, plugins,
                   platformList, shouldRunPrepare, platform, target,
                   validatedPluginId, removeFixed>>

\* -------------------------------------------------- remove(...), platforms

\* The platforms of platforms/platforms, which `target in platforms` tests
KnownPlatforms == {"android", "browser", "electron", "ios"}

\* target.split('@')[0]
PlatformNameOf(t) ==
    LET at == IndexOf(t, "@")
    IN  IF at < 0 THEN t ELSE SubSeq(t, 1, at)

\* What npmUninstall is handed for a target
NpmName(t) == IF t \in KnownPlatforms THEN "cordova-" \o t ELSE t

\* obj without the key k
Omit(obj, k) == [x \in (DOMAIN obj) \ {k} |-> obj[x]]

\* cfg.getEngines().some(e => e.name === platformName), cfg.removeEngine
CfgHasEngine(c, name) == \E i \in 1..Len(c.engines) : c.engines[i].name = name

CfgRemoveEngine(c, name) ==
    [c EXCEPT !.engines = SelectSeq(@, LAMBDA e : e.name # name)]

\* The descriptor after the engine test and removeEngine of each of names,
\* one after the other, and the log of its writes
RECURSIVE CfgRemoveEngines(_, _, _)
CfgRemoveEngines(c, names, i) ==
    IF i > Len(names) THEN c
    ELSE CfgRemoveEngines(
            IF CfgHasEngine(c, names[i]) THEN CfgRemoveEngine(c, names[i])
            ELSE c, names, i + 1)

RECURSIVE CfgWrites(_, _, _)
CfgWrites(c, names, i) ==
    IF i > Len(names) THEN <<>>
    ELSE IF CfgHasEngine(c, names[i])
         THEN <<Entry("cfg.write", i, names[i], "", "fulfilled")>>
                \o CfgWrites(CfgRemoveEngine(c, names[i]), names, i + 1)
         ELSE CfgWrites(c, names, i + 1)

\* First remove of part_000: pkgJson.update({ cordova: { platforms: [...] } })
\* for each target whose name the list includes; content is the working copy
RECURSIVE UpdatePlatformsEach(_, _, _)
UpdatePlatformsEach(content, names, i) ==
    IF i > Len(names) THEN content
    ELSE UpdatePlatformsEach(
            IF Includes(content.cordova.platforms, names[i])
            THEN PkgUpdate(content,
                    [cordova |->
                        [platforms |->
                            SelectSeq(content.cordova.platforms,
                                      LAMBDA pf : pf # names[i])]])
            ELSE content, names, i + 1)

\* Second remove of part_000: cordova.platforms = platforms.filter(...);
\* pkgJson.update({ cordova })
UpdatePlatformsAll(content, names) ==
    PkgUpdate(content,
        [cordova |->
            [content.cordova EXCEPT
                !.platforms = SelectSeq(@, LAMBDA pf : ~Includes(names, pf))]])

PlatformRm == command = "platform rm"

\* remove(hooksRunner, projectRoot, targets, opts) up to the firing of the
\* before_platform_rm hook
PlatformRemove ==
    /\ PlatformRm
    /\ pc = "idle"
    /\ IF NoTargets(targets)
       THEN /\ result' = "rejected"
            /\ pc' = "done"
            /\ UNCHANGED log
       ELSE /\ log' = Append(log, Entry("fire", 0, "before_platform_rm", "",
                                        "pending"))
            /\ pc' = "before"
            /\ UNCHANGED result
    /\ UNCHANGED <<cfg, pkgDisk, dirs, fetch, idx, failed, step, platform,
                   target, validatedPluginId, plugins, platformList,
                   shouldRunPrepare, removeFixed>>

\* targets.forEach: fs.rmSync of platforms/<target> and
\* removePlatformPluginsJson, target after target
RemovePlatformDirs ==
    /\ PlatformRm
    /\ pc = "rmSync"
    /\ dirs' = [dirs EXCEPT !.platforms = @ \ Elements(targets),
                            !.json = @ \ Elements(targets)]
    /\ log' = log \o [i \in 1..(2 * Len(targets)) |->
                        IF i % 2 = 1
                        THEN Entry("rmSync", (i + 1) \div 2,
                                   targets[(i + 1) \div 2], "", "fulfilled")
                        ELSE Entry("removePlatformPluginsJson", i \div 2,
                                   targets[i \div 2], "", "fulfilled")]
    /\ pc' = "persist"
    /\ UNCHANGED <<cfg, pkgDisk, fetch, idx, failed, result, step, platform,
                   target, validatedPluginId, plugins, platformList,
                   shouldRunPrepare, removeFixed>>

\* The platform names of the targets
TargetPlatformNames == [i \in 1..Len(targets) |-> PlatformNameOf(targets[i])]

\* The async callback after the deletion, up to the await of the load: the
\* first remove loads the manifest whatever the options, the second with
\* opts.save only
PersistPlatformRemoval ==
    /\ PlatformRm
    /\ pc = "persist"
    /\ pc' = IF variant = 2 /\ ~opts.save THEN "targets" ELSE "persistLoad"
    /\ UNCHANGED <<cfg, pkgDisk, dirs, log, result, fetch, idx, failed, step,
                   platform, target, validatedPluginId, plugins, platformList,
                   shouldRunPrepare, removeFixed>>

\* await PackageJson.load / loadPackageJson settles. A load that rejects
\* rejects the command: no uninstall, no after hook. After a load that
\* fulfils, with opts.save the names leave the platform list of the working
\* copy; the first remove takes the engines out of the descriptor now and
\* saves if a name was in the list, the second always saves.
PlatformPersistLoaded ==
    /\ PlatformRm
    /\ pc = "persistLoad"
    /\ \E loadOk \in BOOLEAN :
        IF ~loadOk
        THEN /\ pc' = "done"
             /\ result' = "rejected"
             /\ UNCHANGED <<cfg, log>>
        ELSE IF ~opts.save
        THEN /\ pc' = "targets"
             /\ UNCHANGED <<cfg, log, result>>
        ELSE LET names == TargetPlatformNames
                 hasUpdatedPackage ==
                     \E i \in 1..Len(names) :
                         Includes(pkgDisk.cordova.platforms, names[i])
                 saving == variant = 2 \/ hasUpdatedPackage
                 writes == IF variant = 1 THEN CfgWrites(cfg, names, 1)
                           ELSE <<>>
                 saved == IF saving
                          THEN <<Entry("pkgJson.save", 0, "", "", "pending")>>
                          ELSE <<>>
             IN  /\ cfg' = IF variant = 1 THEN CfgRemoveEngines(cfg, names, 1)
                           ELSE cfg
                 /\ log' = log \o writes \o saved
                 /\ pc' = IF saving THEN "persistSave" ELSE "targets"
                 /\ UNCHANGED result
    /\ UNCHANGED <<pkgDisk, dirs, fetch, idx, failed, step, platform,
                   target, validatedPluginId, plugins, platformList,
                   shouldRunPrepare, removeFixed>>

\* pkgJson.save() settles; a throw rejects the command. The second remove
\* takes the engines out of the descriptor after the save. Nothing else
\* writes package.json between the load and the save of a remove.
PlatformPersistSaveSettles ==
    /\ PlatformRm
    /\ pc = "persistSave"
    /\ InFlight
    /\ LET names == TargetPlatformNames
           content == IF variant = 1
                      THEN UpdatePlatformsEach(pkgDisk, names, 1)
                      ELSE UpdatePlatformsAll(pkgDisk, names)
       IN  \E ok \in BOOLEAN :
            /\ pkgDisk' = IF ok THEN content ELSE pkgDisk
            /\ cfg' = IF variant = 2 /\ ok
                      THEN CfgRemoveEngines(cfg, names, 1) ELSE cfg
            /\ log' = IF variant = 2 /\ ok
                      THEN Settled("fulfilled") \o CfgWrites(cfg, names, 1)
                      ELSE Settled(IF ok THEN "fulfilled" ELSE "rejected")
            /\ pc' = IF ok THEN "targets" ELSE "done"
            /\ result' = IF ok THEN result ELSE "rejected"
    /\ UNCHANGED <<dirs, fetch, idx, failed, step, platform, target,
                   validatedPluginId, plugins, platformList, shouldRunPrepare,
                   removeFixed>>

\* Q_chainmap(targets, ...) reaches the next target: npmUninstall is called
NpmUninstall ==
    /\ PlatformRm
    /\ pc = "targets"
    /\ idx <= Len(targets)
    /\ ~InFlight
    /\ log' = Append(log, Entry("npmUninstall", idx, NpmName(targets[idx]),
                                "", "pending"))
    /\ UNCHANGED <<cfg, pkgDisk, dirs, fetch, idx, failed, pc, result, step,
                   platform, target, validatedPluginId, plugins, platformList,
                   shouldRunPrepare, removeFixed>>

\* npmUninstall settles; done, it has taken the package out of the
\* dependencies of package.json
NpmUninstallSettles ==
    /\ PlatformRm
    /\ pc = "targets"
    /\ idx <= Len(targets)
    /\ InFlight
    /\ \E ok \in BOOLEAN :
        /\ log' = Settled(IF ok THEN "fulfilled" ELSE "rejected")
        /\ pkgDisk' =
            IF ok
            THEN [pkgDisk EXCEPT
                    !.dependencies = Omit(@, NpmName(targets[idx])),
                    !.devDependencies = Omit(@, NpmName(targets[idx]))]
            ELSE pkgDisk
        /\ failed' = IF ok THEN failed
                     ELSE failed \cup {[target |-> idx, platform |-> ""]}
        /\ IF ~ok /\ ~Q_chainmapIsolates
           THEN pc' = "done" /\ result' = "rejected" /\ UNCHANGED idx
           ELSE idx' = idx + 1 /\ UNCHANGED <<pc, result>>
    /\ UNCHANGED <<cfg, dirs, fetch, step, platform, target,
                   validatedPluginId, plugins, platformList, shouldRunPrepare,
                   removeFixed>>

\* The fold over the targets has settled: after_platform_rm is fired
AfterNpmUninstalls ==
    /\ PlatformRm
    /\ pc = "targets"
    /\ idx > Len(targets)
    /\ log' = Append(log, Entry("fire", 0, "after_platform_rm", "",
                                "pending"))
    /\ pc' = "after"
    /\ UNCHANGED <<cfg, pkgDisk, dirs, fetch, idx, failed, result, step,
                   platform, target, validatedPluginId, plugins, platformList,
                   shouldRunPrepare, removeFixed>>

RemoveNext ==
    \/ PluginRemove
    \/ BeforeHookSettles
    \/ ValidateTarget
    \/ UninstallPlatform
    \/ UninstallPlatformSettles
    \/ PlatformsSettle
    \/ UninstallPlugin
    \/ UninstallPluginSettles
    \/ PersistRemoval
    \/ PersistLoaded
    \/ PersistSaveSettles
    \/ RemoveFetchMetadata
    \/ AfterRemovePlugins
    \/ PreparePlatformsSettles
    \/ AfterHookSettles
    \/ PlatformRemove
    \/ RemovePlatformDirs
    \/ PersistPlatformRemoval
    \/ PlatformPersistLoaded
    \/ PlatformPersistSaveSettles
    \/ NpmUninstall
    \/ NpmUninstallSettles
    \/ AfterNpmUninstalls

RemoveSpec == RemoveInit /\ [][RemoveNext]_vars

\* ------------------------------------------------ plugin remove, per target

PluginRm == command = "plugin rm"

\* The fold over opts.plugins has started
FoldStarted == Len(log) > 0 /\ log[1].outcome = "fulfilled"

\* The lines of the log made for target t
LogOf(t) == SelectSeq(log, LAMBDA e : e.target = t)

Ops(entries) == [i \in 1..Len(entries) |-> entries[i].op]

\* Target t matches no installed plugin id, with or without the prefix
Unmatched(t) ==
    /\ opts.plugins[t] \notin plugins
    /\ (PluginPrefix \o opts.plugins[t]) \notin plugins

\* removePlugin has settled for target t
Handled(t) == t < idx \/ pc \in {"prepare", "after", "done"}

\* C13: a target that matches no installed plugin id fails validation
\* without a platform-level or package-level uninstall invoked for it, and
\* without a change to the descriptor, the manifest or the fetch metadata
\* for it.
C13_UnmatchedTargetTouchesNothing ==
    (PluginRm /\ FoldStarted) =>
        \A t \in 1..Len(opts.plugins) :
            Unmatched(t) =>
                /\ Handled(t) =>
                        [target |-> t, platform |-> ""] \in failed
                /\ LogOf(t) = <<>>
                /\ \A id \in {opts.plugins[t],
                              PluginPrefix \o opts.plugins[t]} :
                        /\ CfgHasPlugin(cfg, id)
                                <=> CfgHasPlugin(atStart.cfg, id)
                        /\ PkgHasPlugin(pkgDisk, id)
                                <=> PkgHasPlugin(atStart.pkg, id)
                        /\ id \in fetch <=> id \in atStart.fetch

\* A command with save went through an unmatched target and a matched one
C13_Witness ==
    /\ PluginRm
    /\ pc = "done"
    /\ opts.save
    /\ \E t \in 1..Len(opts.plugins) :
            /\ Unmatched(t)
            /\ CfgHasPlugin(cfg, opts.plugins[t])
            /\ opts.plugins[t] \in fetch
    /\ \E t \in 1..Len(opts.plugins) :
            /\ ~Unmatched(t)
            /\ Includes(Ops(LogOf(t)), "remove_fetch_metadata")

\* What a line of the log did, to what, on which platform
Steps(entries) ==
    [i \in 1..Len(entries) |->
        <<entries[i].op, entries[i].id, entries[i].platform>>]

IsPrefix(a, b) == Len(a) <= Len(b) /\ a = SubSeq(b, 1, Len(a))

\* The steps of a target removed without a failure: id is the validated id,
\* c and pkg the stores as the command found them
StepsInOrder(id, c, pkg) ==
    [i \in 1..Len(platformList) |->
        <<"uninstallPlatform", id, platformList[i]>>]
    \o <<<<"uninstallPlugin", id, "">>>>
    \o (IF opts.save /\ CfgHasPlugin(c, id)
        THEN <<<<"cfg.write", id, "">>>> ELSE <<>>)
    \o (IF opts.save /\ PkgHasPlugin(pkg, id)
        THEN <<<<"pkgJson.save", id, "">>>> ELSE <<>>)
    \o <<<<"remove_fetch_metadata", id, "">>>>

\* C14: for each validated target the steps run in this order, each after
\* the one before it has settled: the platform-level uninstall once per
\* installed platform in platform-list order, then the package-level
\* uninstall once (also without a platform), then the persistence if save
\* was asked for, then remove_fetch_metadata once for the validated id.
C14_StepsInOrder ==
    (PluginRm /\ FoldStarted) =>
        /\ \A i \in 1..(Len(log) - 1) : log[i].outcome # "pending"
        /\ \A t \in 1..Len(opts.plugins) :
            ~Unmatched(t) =>
                LET id == ValidatePluginId(opts.plugins[t], plugins)
                    inOrder == StepsInOrder(id, atStart.cfg, atStart.pkg)
                IN  /\ IsPrefix(Steps(LogOf(t)), inOrder)
                    /\ (Handled(t)
                            /\ [target |-> t, platform |-> ""] \notin failed)
                        => Steps(LogOf(t)) = inOrder

\* A target was removed from two platforms and from both stores
C14_Witness ==
    /\ PluginRm
    /\ pc = "done"
    /\ \E t \in 1..Len(opts.plugins) :
            /\ Len(LogOf(t)) = 6
            /\ [target |-> t, platform |-> ""] \notin failed

\* Another target was removed without a platform installed
C14_WitnessNoPlatform ==
    /\ PluginRm
    /\ pc = "done"
    /\ platformList = <<>>
    /\ \E t \in 1..Len(opts.plugins) :
            Ops(LogOf(t)) = <<"uninstallPlugin", "remove_fetch_metadata">>

\* A step made for target t was rejected
FailedStep(t) ==
    \/ Unmatched(t)
    \/ \E i \in 1..Len(LogOf(t)) : LogOf(t)[i].outcome = "rejected"

\* C15: a failure in a step of one target (validation, a platform-level
\* uninstall, the package-level uninstall, persistence) ends the steps of
\* that target only: no further step is made for it, and every other target
\* still goes through its own steps.
C15_FailureEndsOneTarget ==
    (PluginRm /\ FoldStarted) =>
        \A t \in 1..Len(opts.plugins) :
            /\ \A i \in 1..Len(LogOf(t)) :
                    LogOf(t)[i].outcome = "rejected" => i = Len(LogOf(t))
            /\ (Handled(t) /\ ~FailedStep(t)) =>
                    Steps(LogOf(t)) =
                        StepsInOrder(ValidatePluginId(opts.plugins[t], plugins),
                                     atStart.cfg, atStart.pkg)

\* Where in the log the lines of an operation are
At(op, id) == {i \in 1..Len(log) : log[i].op = op /\ log[i].id = id}

\* A platform-level uninstall reported that it did not prepare
ReportedNotPrepared == \E i \in 1..Len(log) : log[i].outcome = "not prepared"

\* C16: if a platform-level uninstall of the command reported that it did
\* not prepare, preparePlatforms is invoked exactly once, after the steps of
\* all targets and before the after_plugin_rm hook; if every platform-level
\* uninstall prepared, or no platform is installed, it is not invoked.
C16_PrepareOnceIfNeeded ==
    (PluginRm /\ FoldStarted) =>
        /\ Cardinality(At("preparePlatforms", "")) <= 1
        /\ \A i \in At("preparePlatforms", "") :
            /\ idx > Len(opts.plugins)
            /\ \A j \in 1..Len(log) : log[j].target > 0 => j < i
            /\ \A j \in At("fire", "after_plugin_rm") : i < j
        /\ pc \in {"prepare", "after", "done"} =>
            (At("preparePlatforms", "") # {} <=> ReportedNotPrepared)

\* Two targets were removed, one uninstall did not prepare, and the command
\* resolved after its one prepare
C16_Witness ==
    /\ PluginRm
    /\ result = "resolved"
    /\ At("preparePlatforms", "") # {}
    /\ Cardinality(At("uninstallPlugin", "cordova-plugin-camera")
                    \cup At("uninstallPlugin", "cordova-plugin-file")) = 2
    /\ \E i \in 1..Len(log) : log[i].outcome = "prepared"

\* No platform is installed and the command resolved without a prepare
C16_WitnessNoPlatform ==
    /\ PluginRm
    /\ result = "resolved"
    /\ platformList = <<>>
    /\ At("uninstallPlugin", "cordova-plugin-camera") # {}

\* removePlugin has fulfilled for target t
Removed(t) ==
    Handled(t) /\ [target |-> t, platform |-> ""] \notin failed

\* The validated ids of the targets removePlugin has got as far as
\* persisting
Persisted ==
    {log[i].id : i \in {j \in 1..Len(log) :
                            log[j].op \in {"cfg.write", "pkgJson.save"}}}

\* C17: without save a plugin removal changes neither the descriptor nor
\* the manifest; with save the id of a removed plugin is gone from the
\* descriptor, which is written, and from the manifest's plugin map, which
\* is saved, while the other plugin entries and the platform list of the
\* manifest stay as they were; with or without save the fetch-metadata
\* entry of a removed plugin is gone.
C17_SaveGatesPersistence ==
    (PluginRm /\ FoldStarted) =>
        /\ ~opts.save => (cfg = atStart.cfg /\ pkgDisk = atStart.pkg)
        /\ pkgDisk.cordova.platforms = atStart.pkg.cordova.platforms
        /\ pkgDisk = [atStart.pkg EXCEPT
                        !.cordova.plugins = pkgDisk.cordova.plugins]
        /\ \A i \in 1..Len(atStart.pkg.cordova.plugins) :
                atStart.pkg.cordova.plugins[i].id \notin Persisted =>
                    Includes(pkgDisk.cordova.plugins,
                             atStart.pkg.cordova.plugins[i])
        /\ \A t \in 1..Len(opts.plugins) :
            Removed(t) =>
                LET id == ValidatePluginId(opts.plugins[t], plugins)
                IN  /\ id \notin fetch
                    /\ opts.save =>
                        /\ ~CfgHasPlugin(cfg, id)
                        /\ ~PkgHasPlugin(pkgDisk, id)
                        /\ CfgHasPlugin(atStart.cfg, id)
                                => At("cfg.write", id) # {}
                        /\ PkgHasPlugin(atStart.pkg, id)
                                => At("pkgJson.save", id) # {}

\* With save, the camera plugin was removed from both stores and from the
\* fetch metadata
C17_Witness ==
    /\ PluginRm
    /\ pc = "done"
    /\ opts.save
    /\ CfgHasPlugin(atStart.cfg, "cordova-plugin-camera")
    /\ PkgHasPlugin(atStart.pkg, "cordova-plugin-camera")
    /\ \E t \in 1..Len(opts.plugins) :
            /\ Removed(t)
            /\ ValidatePluginId(opts.plugins[t], plugins)
                    = "cordova-plugin-camera"
    /\ "cordova-plugin-camera" \notin fetch

\* Without save, the camera plugin was removed and the stores declare it
C17_WitnessNoSave ==
    /\ PluginRm
    /\ pc = "done"
    /\ ~opts.save
    /\ \E t \in 1..Len(opts.plugins) : Removed(t)
    /\ "cordova-plugin-camera" \notin fetch
    /\ CfgHasPlugin(cfg, "cordova-plugin-camera")

\* ------------------------------------------------------- hooks and targets

Removing == command \in {"plugin rm", "platform rm"}

BeforeHook == IF PluginRm THEN "before_plugin_rm" ELSE "before_platform_rm"

AfterHook == IF PluginRm THEN "after_plugin_rm" ELSE "after_platform_rm"

\* A directory was deleted, a store was written or the fetch metadata
\* changed
Changed ==
    \/ cfg # atStart.cfg
    \/ pkgDisk # atStart.pkg
    \/ dirs # atStart.dirs
    \/ fetch # atStart.fetch

\* C18: in plugin remove and in platform remove the before_ hook is fired
\* before any directory deletion, uninstall primitive or store write, and
\* the after_ hook only after all those steps of all targets have finished;
\* if the before_ hook rejects, none of the steps happens and the command
\* rejects.
C18_HooksAroundTheSteps ==
    Removing =>
        /\ Len(log) > 0 =>
                /\ log[1].op = "fire"
                /\ log[1].id = BeforeHook
        /\ (Len(log) > 1 \/ Changed) =>
                /\ Len(log) > 0
                /\ log[1].outcome = "fulfilled"
        /\ \A i \in At("fire", AfterHook) :
                /\ i = Len(log)
                /\ idx > Len(targets)
                /\ \A j \in 1..(i - 1) : log[j].outcome # "pending"
        /\ (Len(log) > 0 /\ log[1].outcome = "rejected") =>
                /\ Len(log) = 1
                /\ ~Changed
                /\ result = "rejected"

\* A platform remove with save changed the project between its two hooks
C18_Witness ==
    /\ PlatformRm
    /\ result = "resolved"
    /\ Changed
    /\ Len(log) > 4
    /\ log[Len(log)].id = "after_platform_rm"

\* A plugin remove changed the project between its two hooks
C18_WitnessPlugin ==
    /\ PluginRm
    /\ result = "resolved"
    /\ Changed
    /\ Len(log) > 4
    /\ log[Len(log)].id = "after_plugin_rm"

\* The before_ hook rejected
C18_WitnessRejected ==
    /\ Removing
    /\ pc = "done"
    /\ Len(log) = 1
    /\ log[1].outcome = "rejected"

\* ----------------------------------------------------------- platform remove

\* The step of platform remove a line of the log belongs to
Rank(e) ==
    CASE e.op \in {"rmSync", "removePlatformPluginsJson"} -> 1
      [] e.op \in {"cfg.write", "pkgJson.save"} -> 2
      [] e.op = "npmUninstall" -> 3
      [] e.op = "fire" -> IF e.id = "after_platform_rm" THEN 4 ELSE 0

NpmUninstalls == SelectSeq(log, LAMBDA e : e.op = "npmUninstall")

\* The platforms target t names, with or without a version
NamedBy(t) ==
    {name \in KnownPlatforms :
        targets[t] = name \/ StartsWith(targets[t], name \o "@")}

\* The persistence step is over and did not throw
PersistenceDone ==
    pc \in {"targets", "after"} \/ At("fire", "after_platform_rm") # {}

\* What platform remove does in its order: for every target
\* platforms/<target> and its platform plugin registrations, the target
\* taken as it was given, are deleted; then, only with save, the engine goes
\* from the descriptor and the platform name from the manifest's platform
\* list; then the package-level uninstall is invoked once per target, one at
\* a time in target order, none of them before the persistence has finished.
PlatformRemoveStepsInOrder ==
    (PlatformRm /\ FoldStarted) =>
        /\ \A i, j \in 1..Len(log) : i < j => Rank(log[i]) <= Rank(log[j])
        /\ \A i \in 1..(Len(log) - 1) : log[i].outcome # "pending"
        /\ pc # "rmSync" =>
            \A t \in 1..Len(targets) :
                /\ targets[t] \notin dirs.platforms
                /\ targets[t] \notin dirs.json
                /\ Ops(LogOf(t)) \in {<<"rmSync", "removePlatformPluginsJson">>}
                        \cup {<<"rmSync", "removePlatformPluginsJson">> \o q :
                                q \in {<<"npmUninstall">>, <<"cfg.write">>,
                                       <<"cfg.write", "npmUninstall">>}}
        /\ ~opts.save =>
                /\ \A i \in 1..Len(log) : Rank(log[i]) # 2
                /\ cfg = atStart.cfg
                /\ pkgDisk.cordova = atStart.pkg.cordova
        /\ (opts.save /\ PersistenceDone) =>
            \A t \in 1..Len(targets) :
                \A name \in NamedBy(t) :
                    /\ ~CfgHasEngine(cfg, name)
                    /\ ~Includes(pkgDisk.cordova.platforms, name)
        /\ \A t \in 1..Len(NpmUninstalls) :
                /\ NpmUninstalls[t].target = t
                /\ NpmUninstalls[t].id = NpmName(targets[t])
        /\ At("fire", "after_platform_rm") # {} =>
                Len(NpmUninstalls) = Len(targets)

\* Once the deletion step has run, no platform that a target names, with or
\* without a version, has its directory or its platform plugin registrations
\* on disk
PlatformDirsDeleted ==
    (PlatformRm /\ FoldStarted /\ pc # "rmSync") =>
        \A t \in 1..Len(targets) :
            \A name \in NamedBy(t) :
                /\ name \notin dirs.platforms
                /\ name \notin dirs.json

\* C19: platform remove first deletes, for every target, the on-disk
\* platform directory and strips its platform plugin registrations; then,
\* only with save, removes the engine from the descriptor and the platform
\* name from the manifest's platform list; then invokes the package-level
\* uninstall once per target, one at a time in target order, none of them
\* before the persistence has finished.
C19_PlatformRemoveInOrder ==
    PlatformRemoveStepsInOrder /\ PlatformDirsDeleted

\* ------------------------------------------------------------- usage error

\* C20: plugin remove and platform remove with an absent or empty target
\* list reject at once: no hook is fired, no uninstall primitive is invoked,
\* and no directory, store or metadata changes.
C20_NoTargetsRejects ==
    (Removing /\ Len(targets) = 0 /\ pc # "idle") =>
        /\ pc = "done"
        /\ result = "rejected"
        /\ log = <<>>
        /\ ~Changed

\* A platform remove without a target was turned down
C20_Witness ==
    /\ PlatformRm
    /\ Len(targets) = 0
    /\ pc = "done"
    /\ result = "rejected"

\* A plugin remove without a target was turned down
C20_WitnessPlugin ==
    /\ PluginRm
    /\ Len(targets) = 0
    /\ pc = "done"
    /\ result = "rejected"

\* ------------------------------------------------------ persistence failure

Restoring == command \in {"platforms", "plugins"}

\* C21: if the manifest save of a restore's reconciliation fails, the
\* restore rejects and the install primitive is invoked for no item; a save
\* that succeeds has completed, with the reconciled manifest on disk, before
\* the first install primitive begins.
C21_SaveFailureIsFatal ==
    (Restoring /\ run > 0) =>
        /\ saveError =>
            /\ saves = 1
            /\ pc = "done"
            /\ result = "rejected"
            /\ Len(calls) = 0
            /\ Len(probes) = 0
            /\ inflight = 0
            /\ Alone => (dirs = atStart.dirs /\ pkgDisk = atStart.pkg)
        /\ pc \in {"loading", "saving"} => (Len(calls) = 0 /\ Len(probes) = 0)
        /\ (saves = 1 /\ Len(calls) > 0) =>
            /\ ~saveError
            /\ pkgDisk = pkgJson

\* The save of the first run threw; the second run of the same project
\* saved and then installed an item
C21_Witness ==
    /\ Restoring
    /\ prev.ran
    /\ prev.saveError
    /\ saves = 1
    /\ ~saveError
    /\ Len(calls) > 0

\* ------------------------------------------- platform remove, the manifest

\* The names of the targets: the part before '@'
TargetNames == {PlatformNameOf(targets[t]) : t \in 1..Len(targets)}

\* The manifest without what npmUninstall edits
SansDependencies(pkg) ==
    [pkg EXCEPT !.dependencies = EmptyMap, !.devDependencies = EmptyMap]

\* C22: platform remove with save leaves the plugin map of the manifest, and
\* every field of it other than the platform list, as they were, and takes
\* out of the platform list exactly the names of the targets, the other
\* names staying in their order.
C22_OnlyPlatformListChanges ==
    (PlatformRm /\ FoldStarted /\ opts.save /\ PersistenceDone) =>
        SansDependencies(pkgDisk) =
            SansDependencies(
                [atStart.pkg EXCEPT
                    !.cordova.platforms =
                        SelectSeq(@, LAMBDA pf : pf \notin TargetNames)])

\* The same for the second remove of part_000 alone
SecondRemoveOnlyPlatformListChanges ==
    variant = 2 => C22_OnlyPlatformListChanges

\* --------------------------------------------------- late existence check

\* The directories a successful install of the item leaves on disk
CreatedBy(name) ==
    IF command = "plugins" THEN PluginAddCreates(name, PluginDependencies)
    ELSE {name}

\* The i-th install primitive of the run has fulfilled
Installed(i) ==
    /\ calls[i].name \notin failed
    /\ (i = Len(calls) => pc # "installing")

\* C23: the existence check of an item is evaluated only after the install
\* primitive of the item before it has settled, so an item whose directory
\* an earlier install of the same run created (a plugin installed as a
\* dependency) does not get the install primitive invoked for it.
C23_LateExistenceCheck ==
    Restoring =>
        /\ \A j \in 1..Len(calls) :
            \A i \in 1..(j - 1) :
                /\ Installed(i) \/ calls[i].name \in failed
                /\ Installed(i) => calls[j].name \notin CreatedBy(calls[i].name)
        /\ Returned =>
            \A k \in 1..Len(items) :
                (\E i \in 1..Len(calls) :
                    /\ Installed(i)
                    /\ calls[i].name # items[k].name
                    /\ items[k].name \in CreatedBy(calls[i].name)
                    /\ \E h \in 1..(k - 1) : items[h].name = calls[i].name)
                => ~Includes(CallNames, items[k].name)

\* The camera plugin was installed and brought the file plugin, declared
\* after it and absent when the restore started; the file plugin was not
\* installed again
C23_Witness ==
    /\ command = "plugins"
    /\ Returned
    /\ failed = {}
    /\ "cordova-plugin-file" \notin atStart.dirs.plugins
    /\ "cordova-plugin-file" \in dirs.plugins
    /\ Includes(CallNames, "cordova-plugin-camera")
    /\ Includes(ItemNames, "cordova-plugin-file")
    /\ ~Includes(CallNames, "cordova-plugin-file")

\* ------------------------------------- validatePluginId, call by call

\* Most invocations of validatePluginId followed within one call of it
MaxFrames == 3

\* As ValidatePluginIdFrame, but an id that is not installed is always
\* retried with the prefix
ValidatePluginIdFrameAlwaysRetries(pluginId, installedPlugins) ==
    IF pluginId \in installedPlugins
    THEN [op |-> "return", value |-> pluginId]
    ELSE [op |-> "call", value |-> PluginPrefix \o pluginId]

\* One invocation of validatePluginId: what it returns, or the argument of
\* the invocation of itself whose value it returns
ValidatePluginIdFrame(pluginId, installedPlugins) ==
    IF pluginId \in installedPlugins
    THEN [op |-> "return", value |-> pluginId]
    ELSE IF IndexOf(pluginId, PluginPrefix) < 0
         THEN [op |-> "call", value |-> PluginPrefix \o pluginId]
         ELSE [op |-> "return", value |-> Undefined]

\* validatePluginId is entered with pluginId; log holds the arguments of the
\* invocations so far, the outermost first
Enter(pluginId) ==
    LET frame == ValidatePluginIdFrame(pluginId, plugins)
    IN  /\ log' = Append(log, pluginId)
        /\ IF frame.op = "return"
           THEN /\ pc' = "returned"
                /\ validatedPluginId' = frame.value
           ELSE /\ pc' = "call"
                /\ UNCHANGED validatedPluginId
        /\ UNCHANGED <<cfg, pkgDisk, dirs, command, targets, result, idx,
                       failed, atStart, restoreOnly, opts, variant, plugins,
                       platformList, shouldRunPrepare, fetch, step, platform,
                       target>>

\* The caller's validatePluginId(target, plugins)
InvokeValidatePluginId ==
    /\ command = "validatePluginId"
    /\ pc = "call"
    /\ log = <<>>
    /\ Enter(target)

\* The invocation of validatePluginId by itself
RecurseValidatePluginId ==
    /\ command = "validatePluginId"
    /\ pc = "call"
    /\ log # <<>>
    /\ Len(log) < MaxFrames
    /\ Enter(ValidatePluginIdFrame(log[Len(log)], plugins).value)

ValidateFramesNext == InvokeValidatePluginId \/ RecurseValidatePluginId

\* A call runs on until it returns
ValidateFramesSpec ==
    ValidateInit /\ [][ValidateFramesNext]_vars /\ WF_vars(ValidateFramesNext)

\* C24: validatePluginId returns for every plugin id and every installed
\* list, and it has then invoked itself at most once; for an id that equals
\* or contains 'cordova-plugin-' and is not installed it returns nothing
\* without invoking itself.
C24_AtMostOneRecursion ==
    /\ [](command = "validatePluginId" =>
            /\ Len(log) <= 2
            /\ \A i \in 2..Len(log) : log[i] = PluginPrefix \o log[i - 1]
            /\ pc = "returned" =>
                /\ log # <<>>
                /\ log[1] = target
                /\ validatedPluginId = ValidatePluginId(target, plugins)
                /\ (IndexOf(target, PluginPrefix) >= 0 /\ target \notin plugins)
                    => (Len(log) = 1 /\ validatedPluginId = Undefined))
    /\ <>(command = "validatePluginId" => pc = "returned")

\* The id 'cordova-plugin-' itself, not installed, came back as nothing after
\* the one invocation
C24_Witness ==
    /\ command = "validatePluginId"
    /\ pc = "returned"
    /\ target = PluginPrefix
    /\ target \notin plugins
    /\ Len(log) = 1
    /\ validatedPluginId = Undefined

\* The bare id took the one invocation by itself that the function allows
C24_OneRecursion ==
    /\ command = "validatePluginId"
    /\ pc = "returned"
    /\ target = "camera"
    /\ log = <<"camera", "cordova-plugin-camera">>

====
